---------------------------- MODULE Spec2Model ----------------------------
(***************************************************************************)
(* Zynapse server runtime: the dispatcher built by Server.buildHandler,    *)
(* the routing installed by Server.start, the server-push connection       *)
(* (Connection / ConnectionWritter) and the full-duplex connection         *)
(* (BidirectionalConnection).                                              *)
(*                                                                         *)
(* Every inbound call is one process.  Its position in the async function  *)
(* returned by buildHandler is pc[c]; every await of that function is a    *)
(* point where other calls, handlers and socket events may interleave.     *)
(***************************************************************************)
EXTENDS Integers, Sequences, FiniteSets, TLC

(***************************************************************************)
(* Bounds                                                                  *)
(***************************************************************************)
MaxCalls == 2
MaxWrites == 2
MaxListeners == 2
MaxInbound == 2
MaxTicks == 2
MaxCloses == 2
MaxStops == 2
MaxSockets == 3
MaxReconnectAttempts == 2

CallIds == 1..MaxCalls
StopIds == 1..MaxStops

(***************************************************************************)
(* The registered schema and implementation.  The shapes are those of the  *)
(* Users service of the test suite, extended with the entries needed to    *)
(* reach every branch of the resolution code.                              *)
(***************************************************************************)
Undefined == "undefined"

\* this.schema.services : service name -> procedure name -> method
services ==
  [ Users      |-> [ GetUserById    |-> "QUERY",
                     ChangeUsername |-> "MUTATION",
                     StreamName     |-> "SUBSCRIPTION",
                     Messages       |-> "BIDIRECTIONAL" ],
    Open       |-> [ GetUserById    |-> "QUERY",
                     StreamName     |-> "SUBSCRIPTION",
                     Unimplemented  |-> "QUERY" ],
    SchemaOnly |-> [ GetUserById    |-> "QUERY" ] ]

\* this.implementation : service name -> own keys of the built object
\* (the handlers, plus the key "middleware" when a middleware was set)
implementation ==
  [ Users    |-> {"GetUserById", "ChangeUsername", "StreamName", "Messages",
                  "Extra", "middleware"},
    Open     |-> {"GetUserById", "StreamName"},
    ImplOnly |-> {"GetUserById"} ]

\* keys every plain object inherits from Object.prototype
ObjectPrototype == {"toString"}

ServiceNames == {"Users", "Open", "SchemaOnly", "ImplOnly", "Ghost", "toString"}
ProcedureNames == {"GetUserById", "ChangeUsername", "StreamName", "Messages",
                   "Extra", "middleware", "Typo", "toString"}

\* obj[key] of a plain object whose own keys are ownKeys
PropertyKind(ownKeys, key) ==
  IF key \in ownKeys THEN "own"
  ELSE IF key \in ObjectPrototype THEN "inherited"
  ELSE Undefined

\* Service.getProcedure(name): this.procedures[name]
getProcedure(service, name) == PropertyKind(DOMAIN services[service], name)

(***************************************************************************)
(* Requests                                                                *)
(***************************************************************************)
\* URL paths, as the list of their segments ("/" is the empty list)
Paths == { <<"_api">>, <<"_api", "webhook">>, <<"_api", "x">>, <<"other">>, <<>> }

\* urlObject.pathname.split("/")[1]
FirstSegment(path) == IF Len(path) = 0 THEN "" ELSE path[1]

DataValues == {"good", "bad"}       \* "good" passes the input schema
ErrorValues == {"e1", "e2"}         \* values thrown by user code
OutputValues == {"true", "false"}   \* values returned by QUERY/MUTATION handlers

\* where the envelope travels, and what is in it
\* json: "ok" parseable, "bad" not parseable
\* missing: the field of {service, procedure, data} that is absent, or "none"
\* Every procedure name is tried on a service that resolves, invalid data on
\* its registered procedures; the services that do not resolve are tried with
\* one procedure name.
Envelopes ==
  [ carrier : {"body", "payload"}, json : {"bad"}, missing : {"none"},
    service : {"Users"}, procedure : {"GetUserById"}, data : {"good"} ]
  \cup
  [ carrier : {"body"}, json : {"ok"}, missing : {"service", "procedure", "data"},
    service : {"Users"}, procedure : {"GetUserById"}, data : {"good"} ]
  \cup
  [ carrier : {"body"}, json : {"ok"}, missing : {"none"},
    service : {"Users"}, procedure : ProcedureNames, data : {"good"} ]
  \cup
  [ carrier : {"body"}, json : {"ok"}, missing : {"none"},
    service : {"Users"}, procedure : DOMAIN services["Users"], data : {"bad"} ]
  \cup
  [ carrier : {"body"}, json : {"ok"}, missing : {"none"},
    service : {"Open"}, procedure : {"GetUserById", "StreamName", "Unimplemented"},
    data : {"good"} ]
  \cup
  [ carrier : {"payload"}, json : {"ok"}, missing : {"none"},
    service : ServiceNames \ {"Users", "Open"}, procedure : {"GetUserById"},
    data : {"good"} ]

DefaultEnvelope ==
  [ carrier |-> "body", json |-> "ok", missing |-> "none",
    service |-> "Users", procedure |-> "GetUserById", data |-> "good" ]

Requests ==
  { [path |-> <<"_api">>, envelope |-> e] : e \in Envelopes }
  \cup
  { [path |-> p, envelope |-> DefaultEnvelope] : p \in Paths \ {<<"_api">>} }

NoRequest == [path |-> <<>>, envelope |-> DefaultEnvelope]

\* the requests that name a SUBSCRIPTION procedure
StreamRequests ==
  { r \in Requests : /\ r.path = <<"_api">>
                     /\ r.envelope.json = "ok" /\ r.envelope.missing = "none"
                     /\ r.envelope.service \in {"Users", "Open"}
                     /\ r.envelope.procedure = "StreamName" }

\* the requests that name a BIDIRECTIONAL procedure
DuplexRequests ==
  { r \in Requests : /\ r.path = <<"_api">>
                     /\ r.envelope.json = "ok" /\ r.envelope.missing = "none"
                     /\ r.envelope.service = "Users"
                     /\ r.envelope.procedure = "Messages" }

(***************************************************************************)
(* Response bodies are lists of text pieces; interpolated values are       *)
(* pieces of their own.                                                    *)
(***************************************************************************)
EmptyBody == <<>>
ServiceNotFoundBody(s) == <<"The service ", s, " doesn't exist">>
ProcedureNotFoundBody(p) == <<"The procedure ", p, " doesn't exist">>
EnvelopeErrorBody(field) ==
  IF field = "service" THEN <<"Service is not present in the body">>
  ELSE IF field = "procedure" THEN <<"Procedure is not present in the body">>
  ELSE <<"Data must be present">>
ValidationErrorBody == <<"The input has failed the validation: ", "ZodError">>
UnparseableBody == <<"Request cannot be parsed at the moment">>
HandlerErrorBody(e) == <<"The endpoint returned an error ", e>>
DataBody(v) == <<"{\"data\":", v, "}">>
StreamBody == <<"text/event-stream">>

VARIABLES
  pc,             \* pc[c]: position of call c in the dispatcher
  req,            \* req[c]: the request of call c
  status,         \* status[c]: status of the response, 0 while there is none
  body,           \* body[c]: body of the response
  inputChecks,    \* inputChecks[c]: runs of procedureDefinition.input.safeParseAsync
  mwCalls,        \* mwCalls[c]: invocations of the service middleware
  mwState,        \* mwState[c]: "none", "running", "resolved", "rejected", "threw"
  handlerCalls,   \* handlerCalls[c]: invocations of the procedure handler
  handlerState,   \* handlerState[c]: as mwState, for the handler's promise
  handlerArgs,    \* handlerArgs[c]: the arguments the handler was invoked with
  thrown,         \* thrown[c]: the value thrown by the middleware or the handler
  returned,       \* returned[c]: the value the awaited handler returned
  connection,     \* connection[c]: the ConnectionWritter created for call c
  connectionPool, \* Server.connectionPool: list of the calls whose writer is tracked
  duplex,         \* duplex[c]: the BidirectionalConnection created for call c
  ctx,            \* ctx[c]: the Map held by the local ctx of call c, 0 before it
  maps,           \* maps[i]: the entries of Map i
  mwCtx,          \* mwCtx[c]: the Map the middleware of call c was given
  handlerCtx,     \* handlerCtx[c]: the Map the handler of call c was given
  mwWrote,        \* mwWrote[c]: the keys the middleware of call c has set
  seen,           \* seen[c]: the entries the handler of call c last read
  builder,        \* a ServiceImplementationBuilder and its last build()
  apiSchema,      \* an APISchema and the services registered on it
  server,         \* Server._server: the listener of Bun.serve, and the process
  stops,          \* stops[k]: the position of the k-th call of Server.stop
  hook            \* one instance of the client hook useWebSocket

vars == << pc, req, status, body, inputChecks, mwCalls, mwState, handlerCalls,
           handlerState, handlerArgs, thrown, returned, connection, connectionPool,
           duplex, ctx, maps, mwCtx, handlerCtx, mwWrote, seen, builder, apiSchema,
           server, stops, hook >>

ctxVars == << ctx, maps, mwCtx, handlerCtx, mwWrote, seen >>
setupVars == << builder, apiSchema, server, stops, hook >>

callVars == << pc, req, status, body, inputChecks, mwCalls, mwState, handlerCalls,
               handlerState, handlerArgs, thrown, returned >>

(***************************************************************************)
(* Server-push connection: Connection + ConnectionWritter                  *)
(***************************************************************************)
Frame(event, data) == [event |-> event, data |-> data]
ConnectedFrame == Frame("comment", "Connected")
KeepaliveFrame == Frame("comment", "keepalive")
CloseFrame == Frame("close", "close")
ContentFrame(m) == Frame("content", m)

\* the messages a handler writes: {letter: "a"}, {letter: "b"}, and an object
\* without letter, which the output schema of the procedure rejects
OutMessages == {"a", "b", "noLetter"}

\* timer: the interval of this.keepaliveInterval is live; started: calls of
\* setInterval; due: the interval has elapsed and its callback has not run;
\* dropped: clearInterval cancelled a callback that was due; sinkOpen: the
\* stream controller accepts enqueue and close; accepted: the messages of the
\* write() calls made while the connection was open; lastWrite, lastClose:
\* how the last call of write(), close() went; escaped: the callbacks whose
\* exception nothing caught
NoConnection ==
  [exists |-> FALSE, closed |-> FALSE, timer |-> FALSE, sinkOpen |-> FALSE,
   frames |-> <<>>, writes |-> 0, started |-> 0, due |-> FALSE, ticks |-> 0,
   dropped |-> FALSE, aborted |-> FALSE, accepted |-> <<>>,
   lastWrite |-> "none", lastClose |-> "none", escaped |-> {}]

\* a writer whose stream starts without the connected marker
NewConnectionWritter_noMarker ==
  [NoConnection EXCEPT !.exists = TRUE, !.timer = TRUE, !.sinkOpen = TRUE,
                       !.started = 1]

\* a writer whose constructor starts the keepalive interval twice and keeps
\* the second handle
NewConnectionWritter_twoIntervals ==
  [NoConnection EXCEPT !.exists = TRUE, !.timer = TRUE, !.sinkOpen = TRUE,
                       !.frames = <<ConnectedFrame>>, !.started = 2]

\* new Connection() followed by new ConnectionWritter(conn, procedureDefinition):
\* the stream's start() enqueues the connected marker, the writer's constructor
\* starts the keepalive interval
NewConnectionWritter ==
  [NoConnection EXCEPT !.exists = TRUE, !.timer = TRUE, !.sinkOpen = TRUE,
                       !.frames = <<ConnectedFrame>>, !.started = 1]

\* this.enqueueFn(frame): appends to an open sink, throws on a closed one
enqueueThrows(w) == ~w.sinkOpen
enqueueFn(w, frame) == [w EXCEPT !.frames = Append(@, frame)]

\* write() without its try/catch: the error of the sink reaches the caller
write_noCatch(w, m) ==
  IF enqueueThrows(w)
    THEN [w EXCEPT !.writes = @ + 1, !.lastWrite = "threw",
                   !.escaped = @ \cup {"write"}]
    ELSE [enqueueFn(w, ContentFrame(m)) EXCEPT
            !.writes = @ + 1, !.lastWrite = "sent",
            !.accepted = IF ~w.closed /\ w.sinkOpen THEN Append(@, m) ELSE @]

\* ConnectionWritter.write(message): a closed writer is logged and the call
\* goes on; the error of a closed sink is caught and logged
write(w, m) ==
  LET logged == w.closed \/ enqueueThrows(w)
      sent == IF enqueueThrows(w) THEN w ELSE enqueueFn(w, ContentFrame(m))
  IN [sent EXCEPT !.writes = @ + 1,
                  !.lastWrite = IF logged THEN "logged" ELSE "sent",
                  !.accepted = IF ~w.closed /\ w.sinkOpen THEN Append(@, m) ELSE @]

\* this.closeFn(): closes an open sink, throws on a closed one
closeFnThrows(w) == ~w.sinkOpen

\* clearInterval(this.keepaliveInterval): a cancelled interval never runs
\* its callback again, a callback that was due included
clearInterval(w) ==
  [w EXCEPT !.timer = FALSE, !.due = FALSE, !.dropped = @ \/ w.due]

\* close() that flips the flag
close_toggle(w) ==
  IF w.closed THEN [w EXCEPT !.closed = FALSE, !.lastClose = "noop"]
  ELSE LET framed == IF enqueueThrows(w) THEN w ELSE enqueueFn(w, CloseFrame)
           cleared == clearInterval(framed)
       IN IF closeFnThrows(cleared) THEN [cleared EXCEPT !.lastClose = "threw"]
          ELSE [cleared EXCEPT !.sinkOpen = FALSE, !.closed = TRUE,
                               !.lastClose = "closed"]

\* close() that appends the close frame and sets the flag, and leaves the
\* interval and the sink as they are
close_noCleanup(w) ==
  IF w.closed THEN [w EXCEPT !.lastClose = "noop"]
  ELSE LET framed == IF enqueueThrows(w) THEN w ELSE enqueueFn(w, CloseFrame)
       IN [framed EXCEPT !.closed = TRUE, !.lastClose = "closed"]

\* ConnectionWritter.close(): a logged no-op when closed; otherwise the close
\* frame (its error is caught), clearInterval, closeFn, and only then
\* closed = true: an error of closeFn leaves the flag false
close(w) ==
  IF w.closed THEN [w EXCEPT !.lastClose = "noop"]
  ELSE LET framed == IF enqueueThrows(w) THEN w ELSE enqueueFn(w, CloseFrame)
           cleared == clearInterval(framed)
       IN IF closeFnThrows(cleared) THEN [cleared EXCEPT !.lastClose = "threw"]
          ELSE [cleared EXCEPT !.sinkOpen = FALSE, !.closed = TRUE,
                               !.lastClose = "closed"]

\* the callback of the keepalive interval: this.enqueueFn(": keepalive"),
\* with nothing to catch the error of a closed sink
keepaliveTick(w) ==
  IF enqueueThrows(w)
    THEN [w EXCEPT !.due = FALSE, !.escaped = @ \cup {"keepalive"}]
    ELSE [enqueueFn(w, KeepaliveFrame) EXCEPT !.due = FALSE]

(***************************************************************************)
(* Full-duplex connection: BidirectionalConnection                         *)
(***************************************************************************)
\* what the callback of a listener does with a message: "reply" sends a
\* conforming message, "invalid" sends one the output schema rejects,
\* "silent" sends nothing, "failing" sends nothing and rejects
ListenerKinds == {"reply", "silent", "invalid", "failing", "hanging"}
ReplyMessage == "ok"               \* conforms to the output schema
InvalidReply == "noSuccess"        \* does not
OutputConforms(m) == m = "ok"      \* procDefinition.output.safeParseAsync(m).success
InputConforms(m) == m = "good"     \* procDefinition.input.safeParseAsync(m).success

\* delivered: the callbacks started, as (listener, position of the message);
\* pending: the sendMessage calls waiting for their validation; sent: the
\* frames given to the socket; errors: the rejections of _onClientMessage;
\* caught: the callback rejections the listener caught and logged;
\* hung: the callbacks started whose promise never settles;
\* closeListeners: the close listeners, by what their callback does;
\* closeLog: the close listeners triggered, by position, and the close of
\* the socket, as position 0; closeCalls: the calls of close and the
\* disconnects of the client
NoDuplex ==
  [exists |-> FALSE, listeners |-> <<>>, inbound |-> <<>>, delivered |-> <<>>,
   pending |-> <<>>, sent |-> <<>>, errors |-> 0, caught |-> 0, hung |-> 0,
   closed |-> FALSE, closeListeners |-> <<>>, closeLog |-> <<>>,
   closeCalls |-> 0]

NewBidirectionalConnection == [NoDuplex EXCEPT !.exists = TRUE]

(***************************************************************************)
(* Request context: ContextType = Map<string, any>                         *)
(***************************************************************************)
ContextKeys == {"user", "userId"}

\* one Map created when the dispatcher is built and handed to every call
newContext_shared(m, c) == [id |-> 1, maps |-> m]

\* const ctx = new Map(): an empty Map that nothing else refers to; it is
\* named after the call whose dispatcher creates it
newContext(m, c) == [id |-> c, maps |-> [m EXCEPT ![c] = {}]]

\* context.set(k, v): the entry of key k is replaced
contextSet(entries, k, v) ==
  {e \in entries : e.key # k} \cup {[key |-> k, value |-> v]}

(***************************************************************************)
(* ServiceImplementationBuilder                                            *)
(***************************************************************************)
\* the service definitions a builder is created for: the keys of
\* serviceSchema.procedures in declaration order, and middlewareDescription
BuilderSchemas ==
  { [procedures |-> p, middlewareDescription |-> m] :
      p \in { <<>>, <<"GetUserById">>, <<"GetUserById", "ChangeUsername">>,
              <<"GetUserById", "ChangeUsername", "StreamName">> },
      m \in { Undefined, "", "auth" } }

\* the names handlers are registered under: the procedures and a misspelling
HandlerNames == {"GetUserById", "ChangeUsername", "StreamName", "GetUserByID"}

Unbuilt == [threw |-> "unbuilt", missing |-> <<>>, warned |-> {}, keys |-> {}]

\* before new ServiceImplementationBuilder(serviceSchema)
NoBuilder ==
  [exists |-> FALSE,
   serviceSchema |-> [procedures |-> <<>>, middlewareDescription |-> Undefined],
   handlers |-> {}, middleware |-> Undefined,
   result |-> Unbuilt,
   builtFrom |-> [handlers |-> {}, middleware |-> Undefined],
   failed |-> FALSE]

\* Object.keys(this.serviceSchema.procedures)
requiredProcedureNames(b) == b.serviceSchema.procedures
\* Object.keys(this.handlers)
implementedProcedureNames(b) == b.handlers

\* missingProcedures that compares the number of handlers with the number
\* of procedures
missingProcedures_count(required, implemented) ==
  IF Cardinality(implemented) >= Len(required) THEN <<>> ELSE required

\* requiredProcedureNames.filter((p) => !implementedProcedureNames.includes(p))
missingProcedures(required, implemented) ==
  SelectSeq(required, LAMBDA p : p \notin implemented)

\* implementedProcedureNames.filter((p) => !requiredProcedureNames.includes(p))
extraProcedures(required, implemented) ==
  { p \in implemented : \A i \in 1..Len(required) : required[i] # p }

\* build() without the middleware check
middlewareMissing_never(b) == FALSE

\* this.serviceSchema.middlewareDescription !== undefined &&
\* this.middleware === undefined
middlewareMissing(b) ==
  b.serviceSchema.middlewareDescription # Undefined /\ b.middleware = Undefined

\* ServiceImplementationBuilder.build(): what it throws, the names its error
\* lists, the names its warning lists, and the own keys of the object it returns
build(b) ==
  LET required == requiredProcedureNames(b)
      implemented == implementedProcedureNames(b)
      missing == missingProcedures(required, implemented)
      extra == extraProcedures(required, implemented)
      keys == (IF b.middleware # Undefined THEN {"middleware"} ELSE {})
                \cup b.handlers
  IN IF missing # <<>>
       THEN [threw |-> "missing", missing |-> missing, warned |-> {}, keys |-> {}]
     ELSE IF middlewareMissing(b)
       THEN [threw |-> "middleware", missing |-> <<>>, warned |-> extra, keys |-> {}]
     ELSE IF \E i \in 1..Len(required) : PropertyKind(keys, required[i]) = Undefined
       THEN [threw |-> "internal", missing |-> <<>>, warned |-> extra, keys |-> {}]
     ELSE [threw |-> "none", missing |-> <<>>, warned |-> extra, keys |-> keys]

(***************************************************************************)
(* APISchema                                                               *)
(***************************************************************************)
MaxRegistrations == 3

RegistryNames == {"Users", "Posts", "Admin"}
\* two Service objects of each name
ServiceObjects == { [name |-> n, object |-> o] : n \in RegistryNames, o \in {"a", "b"} }

\* new APISchema(): no service; log keeps the calls of registerService
NewAPISchema ==
  [services |-> [n \in {} |-> [name |-> "", object |-> ""]],
   warnings |-> 0, log |-> <<>>]

\* registerService that leaves a registered name alone
registerService_keepFirst(a, service) ==
  [services |-> [n \in DOMAIN a.services \cup {service.name} |->
                   IF n \in DOMAIN a.services THEN a.services[n] ELSE service],
   warnings |-> IF PropertyKind(DOMAIN a.services, service.name) # Undefined
                  THEN a.warnings + 1 ELSE a.warnings,
   log |-> Append(a.log, service)]

\* APISchema.registerService(service): the warning of
\* `service.name in this.services`, then {...this.services, [service.name]: service}
registerService(a, service) ==
  [services |-> [n \in DOMAIN a.services \cup {service.name} |->
                   IF n = service.name THEN service ELSE a.services[n]],
   warnings |-> IF PropertyKind(DOMAIN a.services, service.name) # Undefined
                  THEN a.warnings + 1 ELSE a.warnings,
   log |-> Append(a.log, service)]

(***************************************************************************)
(* Client: the hook useWebSocket                                           *)
(***************************************************************************)
\* the hook before its first render.  sockets: the WebSockets it created,
\* each with its readyState and whether its on... handlers are attached;
\* webSocketRef: the position of webSocketRef.current in sockets, 0 for null;
\* reconnectTimer, cleanupDelayTimer: the timeout of that ref is pending;
\* disconnected: disconnect() was called and connect() was not called since
\* by the program or the mount effect; lastCall: the last operation
NoHook ==
  [rendered |-> FALSE, reconnect |-> FALSE, maxReconnectAttempts |-> 0,
   connectOnMount |-> FALSE, sockets |-> <<>>, webSocketRef |-> 0,
   reconnectTimer |-> FALSE, cleanupDelayTimer |-> FALSE,
   reconnectAttemptsRef |-> 0, shouldReconnectRef |-> FALSE,
   isManualDisconnectRef |-> FALSE, isMountedRef |-> FALSE,
   connectionStatus |-> "DISCONNECTED", disconnected |-> FALSE,
   lastCall |-> "none"]

\* webSocketRef.current is a socket that is connecting or open
Live(h) ==
  /\ h.webSocketRef # 0
  /\ h.sockets[h.webSocketRef].readyState \in {"CONNECTING", "OPEN"}

\* clearTimers that leaves the reconnect timeout alone
clearTimers_cleanupOnly(h) == [h EXCEPT !.cleanupDelayTimer = FALSE]

\* clearTimers(): both timeouts are cleared
clearTimers(h) == [h EXCEPT !.reconnectTimer = FALSE, !.cleanupDelayTimer = FALSE]

\* cleanup(): the timers are cleared; the current socket is forgotten, its
\* handlers are removed and it is closed if it is open or connecting
cleanup(h) ==
  LET t == clearTimers(h) IN
    IF t.webSocketRef = 0 THEN t
    ELSE [t EXCEPT !.webSocketRef = 0,
                   !.sockets[t.webSocketRef] =
                      [readyState |-> IF @.readyState \in {"CONNECTING", "OPEN"}
                                        THEN "CLOSING" ELSE @.readyState,
                       attached |-> FALSE]]

\* connect(), with a url: a pending delayed cleanup is cancelled; nothing
\* more while the current socket is connecting or open; otherwise cleanup()
\* and a new socket with its handlers
connect(h) ==
  LET c == [h EXCEPT !.cleanupDelayTimer = FALSE] IN
    IF Live(c) THEN c
    ELSE LET u == cleanup(c) IN
           [u EXCEPT !.isManualDisconnectRef = FALSE,
                     !.connectionStatus = "CONNECTING",
                     !.sockets = Append(@, [readyState |-> "CONNECTING",
                                            attached |-> TRUE]),
                     !.webSocketRef = Len(u.sockets) + 1]

\* disconnect()
disconnect(h) ==
  [cleanup([h EXCEPT !.isManualDisconnectRef = TRUE])
     EXCEPT !.connectionStatus = "DISCONNECTED", !.reconnectAttemptsRef = 0]

\* ws.onopen
onopen(h) == [h EXCEPT !.connectionStatus = "CONNECTED", !.reconnectAttemptsRef = 0]

\* ws.onclose: the reconnection is scheduled if it is enabled, the close is
\* not a manual disconnect and attempts are left
onclose(h) ==
  LET t == [clearTimers(h) EXCEPT !.connectionStatus = "DISCONNECTED"] IN
    IF /\ t.shouldReconnectRef
       /\ ~t.isManualDisconnectRef
       /\ t.reconnectAttemptsRef < t.maxReconnectAttempts
      THEN [t EXCEPT !.reconnectAttemptsRef = @ + 1, !.reconnectTimer = TRUE]
      ELSE t

\* ws.onerror
onerror(h) == [h EXCEPT !.connectionStatus = "ERROR"]

(***************************************************************************)
(* Server: start and stop                                                  *)
(***************************************************************************)
\* new Server(schema, implementation): _server is undefined.  started:
\* _server is defined; listening: the listener accepts requests;
\* listenerStops: the calls of _server.stop(); exited: process.exit was called
NewServer ==
  [started |-> FALSE, listening |-> FALSE, listenerStops |-> 0, exited |-> FALSE]

(***************************************************************************)
(* Initial state: no call has arrived, nothing is tracked.                 *)
(***************************************************************************)
Init ==
  /\ pc = [c \in CallIds |-> "idle"]
  /\ req = [c \in CallIds |-> NoRequest]
  /\ status = [c \in CallIds |-> 0]
  /\ body = [c \in CallIds |-> EmptyBody]
  /\ inputChecks = [c \in CallIds |-> 0]
  /\ mwCalls = [c \in CallIds |-> 0]
  /\ mwState = [c \in CallIds |-> "none"]
  /\ handlerCalls = [c \in CallIds |-> 0]
  /\ handlerState = [c \in CallIds |-> "none"]
  /\ handlerArgs = [c \in CallIds |-> <<>>]
  /\ thrown = [c \in CallIds |-> "none"]
  /\ returned = [c \in CallIds |-> "none"]
  /\ connection = [c \in CallIds |-> NoConnection]
  /\ connectionPool = <<>>
  /\ duplex = [c \in CallIds |-> NoDuplex]
  /\ ctx = [c \in CallIds |-> 0]
  /\ maps = [i \in CallIds |-> {}]
  /\ mwCtx = [c \in CallIds |-> 0]
  /\ handlerCtx = [c \in CallIds |-> 0]
  /\ mwWrote = [c \in CallIds |-> {}]
  /\ seen = [c \in CallIds |-> {}]
  /\ builder = NoBuilder
  /\ apiSchema = NewAPISchema
  /\ server = NewServer
  /\ stops = [k \in StopIds |-> [pc |-> "idle", next |-> 0, logged |-> 0]]
  /\ hook = NoHook

(***************************************************************************)
(* Dispatcher                                                              *)
(***************************************************************************)
\* return new Response(b, {status: st})
Respond(c, st, b) ==
  /\ status' = [status EXCEPT ![c] = st]
  /\ body' = [body EXCEPT ![c] = b]
  /\ pc' = [pc EXCEPT ![c] = "done"]

\* the routes table of Bun.serve in Server.start
Route(path) ==
  IF path = <<"_api">> THEN "handler"
  ELSE IF path = <<"_api", "webhook">> THEN "webhook"
  ELSE "fetch"

\* Server.webhookHandler: no webhook handler is registered
webhookHandler == Undefined

\* A request arrives.  Bun.serve routes it: to the dispatcher, whose first
\* statement is the prefix check; to handleWebhook; or to the fallback fetch.
ReceiveFrom(c, requests) ==
  /\ pc[c] = "idle"
  /\ \E r \in requests :
       /\ req' = [req EXCEPT ![c] = r]
       /\ IF Route(r.path) = "handler"
            THEN IF FirstSegment(r.path) # "_api"
                   THEN Respond(c, 400, EmptyBody)
                   ELSE /\ pc' = [pc EXCEPT ![c] = "parse"]
                        /\ UNCHANGED << status, body >>
            ELSE IF Route(r.path) = "webhook" /\ webhookHandler # Undefined
                   THEN Respond(c, 200, EmptyBody)
                   ELSE Respond(c, 404, EmptyBody)
  /\ UNCHANGED << returned, inputChecks, mwCalls, mwState, handlerCalls, handlerState,
                  handlerArgs, thrown, connection, connectionPool, duplex, ctxVars, setupVars >>

Receive(c) == ReceiveFrom(c, Requests)
\* the connection specifications follow one call: connections share no state
ReceiveStream(c) == c = 1 /\ ReceiveFrom(c, StreamRequests)
ReceiveDuplex(c) == c = 1 /\ ReceiveFrom(c, DuplexRequests)

\* Parse without the RequestBodySchema check: an envelope that lacks a field
\* goes on to resolution
Parse_noSchema(c) ==
  /\ pc[c] = "parse"
  /\ IF req[c].envelope.json = "bad" THEN Respond(c, 500, UnparseableBody)
     ELSE /\ pc' = [pc EXCEPT ![c] = "resolve"]
          /\ UNCHANGED << status, body >>
  /\ UNCHANGED << returned, req, inputChecks, mwCalls, mwState, handlerCalls,
                  handlerState, handlerArgs, thrown, connection, connectionPool,
                  duplex, ctxVars, setupVars >>

\* PARSE: JSON.parse(decodeURIComponent(payload)) or await request.json(),
\* then RequestBodySchema.safeParseAsync(body).  A JSON error is thrown into
\* the outer catch.
Parse(c) ==
  /\ pc[c] = "parse"
  /\ LET e == req[c].envelope IN
       IF e.json = "bad" THEN Respond(c, 500, UnparseableBody)
       ELSE IF e.missing # "none" THEN Respond(c, 400, EnvelopeErrorBody(e.missing))
       ELSE /\ pc' = [pc EXCEPT ![c] = "resolve"]
            /\ UNCHANGED << status, body >>
  /\ UNCHANGED << returned, req, inputChecks, mwCalls, mwState, handlerCalls, handlerState,
                  handlerArgs, thrown, connection, connectionPool, duplex, ctxVars, setupVars >>

\* this.schema.services[service]
serviceDefinition(s) == PropertyKind(DOMAIN services, s)
\* this.implementation[service]
implementationHandler(s) == PropertyKind(DOMAIN implementation, s)
\* implementationHandler[procedure]; an inherited implementationHandler is a
\* function object, whose own keys are not procedure names
procedureHandler(s, p) ==
  IF implementationHandler(s) = "own" THEN PropertyKind(implementation[s], p)
  ELSE PropertyKind({}, p)
\* serviceDefinition.getProcedure(procedure); only a Service has getProcedure
procedureDefinition(s, p) ==
  IF serviceDefinition(s) = "own" THEN getProcedure(s, p) ELSE "TypeError"

\* implementationHandler.middleware !== undefined
hasMiddleware(s) == "middleware" \in implementation[s]

\* RESOLVE: service definition and implementation, then handler and definition
Resolve(c) ==
  /\ pc[c] = "resolve"
  /\ LET s == req[c].envelope.service
         p == req[c].envelope.procedure IN
       IF implementationHandler(s) = Undefined \/ serviceDefinition(s) = Undefined
         THEN Respond(c, 404, ServiceNotFoundBody(s))
       ELSE IF procedureDefinition(s, p) = "TypeError"
         THEN Respond(c, 500, UnparseableBody)
       ELSE IF procedureHandler(s, p) = Undefined
               \/ procedureDefinition(s, p) = Undefined
         THEN Respond(c, 404, ProcedureNotFoundBody(p))
       ELSE /\ pc' = [pc EXCEPT ![c] = "validate"]
            /\ UNCHANGED << status, body >>
  /\ UNCHANGED << returned, req, inputChecks, mwCalls, mwState, handlerCalls, handlerState,
                  handlerArgs, thrown, connection, connectionPool, duplex, ctxVars, setupVars >>

\* ValidateInput without the return of the failure branch: the failure is
\* logged and the call goes on
ValidateInput_noReturn(c) ==
  /\ pc[c] = "validate"
  /\ LET e == req[c].envelope IN
       IF procedureDefinition(e.service, e.procedure) = "inherited"
         THEN /\ Respond(c, 500, UnparseableBody)
              /\ UNCHANGED inputChecks
       ELSE /\ inputChecks' = [inputChecks EXCEPT ![c] = @ + 1]
            /\ pc' = [pc EXCEPT ![c] =
                         IF hasMiddleware(e.service) THEN "middleware"
                         ELSE "execute"]
            /\ UNCHANGED << status, body >>
  /\ IF pc'[c] = "done" THEN UNCHANGED << ctx, maps >>
     ELSE /\ ctx' = [ctx EXCEPT ![c] = newContext(maps, c).id]
          /\ maps' = newContext(maps, c).maps
  /\ UNCHANGED << returned, req, mwCalls, mwState, handlerCalls, handlerState,
                  handlerArgs, thrown, connection, connectionPool, duplex,
                  mwCtx, handlerCtx, mwWrote, seen, setupVars >>

\* VALIDATE_INPUT: procedureDefinition.input.safeParseAsync(data).  An
\* inherited procedureDefinition has no input schema: reading safeParseAsync
\* of undefined throws into the outer catch.
ValidateInput(c) ==
  /\ pc[c] = "validate"
  /\ LET e == req[c].envelope IN
       IF procedureDefinition(e.service, e.procedure) = "inherited"
         THEN /\ Respond(c, 500, UnparseableBody)
              /\ UNCHANGED inputChecks
       ELSE /\ inputChecks' = [inputChecks EXCEPT ![c] = @ + 1]
            /\ IF ~InputConforms(e.data)
                 THEN Respond(c, 400, ValidationErrorBody)
                 ELSE /\ pc' = [pc EXCEPT ![c] =
                                   IF hasMiddleware(e.service) THEN "middleware"
                                   ELSE "execute"]
                      /\ UNCHANGED << status, body >>
  /\ IF pc'[c] = "done" THEN UNCHANGED << ctx, maps >>
     ELSE /\ ctx' = [ctx EXCEPT ![c] = newContext(maps, c).id]
          /\ maps' = newContext(maps, c).maps
  /\ UNCHANGED << returned, req, mwCalls, mwState, handlerCalls, handlerState,
                  handlerArgs, thrown, connection, connectionPool, duplex,
                  mwCtx, handlerCtx, mwWrote, seen, setupVars >>

\* RunMiddleware without the await: the dispatcher goes on to the handler while
\* the middleware's promise is pending
RunMiddleware_noAwait(c) ==
  /\ pc[c] = "middleware"
  /\ mwCalls' = [mwCalls EXCEPT ![c] = @ + 1]
  /\ mwState' = [mwState EXCEPT ![c] = "running"]
  /\ pc' = [pc EXCEPT ![c] = "execute"]
  /\ mwCtx' = [mwCtx EXCEPT ![c] = ctx[c]]
  /\ UNCHANGED << status, body, thrown, returned, req, inputChecks, handlerCalls,
                  handlerState, handlerArgs, connection, connectionPool, duplex,
                  ctx, maps, handlerCtx, mwWrote, seen, setupVars >>

\* MIDDLEWARE: the middleware is called; it throws at once or returns a
\* promise the dispatcher awaits
RunMiddleware(c) ==
  /\ pc[c] = "middleware"
  /\ mwCalls' = [mwCalls EXCEPT ![c] = @ + 1]
  /\ \/ /\ mwState' = [mwState EXCEPT ![c] = "running"]
        /\ pc' = [pc EXCEPT ![c] = "awaitMiddleware"]
        /\ UNCHANGED << status, body, thrown >>
     \/ \E e \in ErrorValues :
          /\ mwState' = [mwState EXCEPT ![c] = "threw"]
          /\ thrown' = [thrown EXCEPT ![c] = e]
          /\ Respond(c, 500, EmptyBody)
  /\ mwCtx' = [mwCtx EXCEPT ![c] = ctx[c]]
  /\ UNCHANGED << returned, req, inputChecks, handlerCalls, handlerState, handlerArgs,
                  connection, connectionPool, duplex,
                  ctx, maps, handlerCtx, mwWrote, seen, setupVars >>

\* MiddlewareSettles with a catch that only logs: a rejected middleware lets
\* the call go on to the handler
MiddlewareSettles_swallow(c) ==
  /\ pc[c] = "awaitMiddleware"
  /\ \/ /\ mwState' = [mwState EXCEPT ![c] = "resolved"]
        /\ UNCHANGED thrown
     \/ \E e \in ErrorValues :
          /\ mwState' = [mwState EXCEPT ![c] = "rejected"]
          /\ thrown' = [thrown EXCEPT ![c] = e]
  /\ pc' = [pc EXCEPT ![c] = "execute"]
  /\ UNCHANGED << status, body, returned, req, inputChecks, mwCalls, handlerCalls,
                  handlerState, handlerArgs, connection, connectionPool, duplex, ctxVars, setupVars >>

\* the middleware's promise settles
MiddlewareSettles(c) ==
  /\ pc[c] = "awaitMiddleware"
  /\ \/ /\ mwState' = [mwState EXCEPT ![c] = "resolved"]
        /\ pc' = [pc EXCEPT ![c] = "execute"]
        /\ UNCHANGED << status, body, thrown >>
     \/ \E e \in ErrorValues :
          /\ mwState' = [mwState EXCEPT ![c] = "rejected"]
          /\ thrown' = [thrown EXCEPT ![c] = e]
          /\ Respond(c, 500, EmptyBody)
  /\ UNCHANGED << returned, req, inputChecks, mwCalls, handlerCalls, handlerState,
                  handlerArgs, connection, connectionPool, duplex, ctxVars, setupVars >>

\* the running middleware calls context.set(k, v) on the Map it was given;
\* the value it stores tells the caller of its request
ContextSet(c) ==
  /\ mwState[c] = "running"
  /\ \E k \in ContextKeys :
       /\ maps' = [maps EXCEPT ![mwCtx[c]] = contextSet(@, k, c)]
       /\ mwWrote' = [mwWrote EXCEPT ![c] = @ \cup {k}]
  /\ UNCHANGED << callVars, connection, connectionPool, duplex, ctx, mwCtx,
                  handlerCtx, seen, setupVars >>

\* the running handler reads the entries of the Map it was given
ContextGet(c) ==
  /\ handlerState[c] = "running"
  /\ handlerCtx[c] # 0
  /\ seen' = [seen EXCEPT ![c] = maps[handlerCtx[c]]]
  /\ UNCHANGED << callVars, connection, connectionPool, duplex, ctx, maps, mwCtx,
                  handlerCtx, mwWrote, setupVars >>

method(c) == services[req[c].envelope.service][req[c].envelope.procedure]

\* EXECUTE, SUBSCRIPTION: the writer is created and tracked, the handler is
\* called without await and the stream is returned; a handler that throws
\* before it returns its promise lands in the handler catch
ExecuteSubscription(c) ==
  /\ pc[c] = "execute"
  /\ method(c) = "SUBSCRIPTION"
  /\ connection' = [connection EXCEPT ![c] = NewConnectionWritter]
  /\ connectionPool' = Append(connectionPool, c)
  /\ handlerCalls' = [handlerCalls EXCEPT ![c] = @ + 1]
  /\ handlerArgs' = [handlerArgs EXCEPT ![c] =
                       <<"input", "request", "context", "connection">>]
  /\ \/ /\ handlerState' = [handlerState EXCEPT ![c] = "running"]
        /\ Respond(c, 200, StreamBody)
        /\ UNCHANGED thrown
     \/ \E e \in ErrorValues :
          /\ handlerState' = [handlerState EXCEPT ![c] = "threw"]
          /\ thrown' = [thrown EXCEPT ![c] = e]
          /\ Respond(c, 500, HandlerErrorBody(e))
  /\ handlerCtx' = [handlerCtx EXCEPT ![c] = ctx[c]]
  /\ UNCHANGED << returned, req, inputChecks, mwCalls, mwState, duplex,
                  ctx, maps, mwCtx, mwWrote, seen, setupVars >>

\* EXECUTE, request/response: the handler is called and awaited
ExecuteRequestResponse(c) ==
  /\ pc[c] = "execute"
  /\ method(c) \in {"QUERY", "MUTATION"}
  /\ handlerCalls' = [handlerCalls EXCEPT ![c] = @ + 1]
  /\ handlerArgs' = [handlerArgs EXCEPT ![c] = <<"input", "request", "context">>]
  /\ \/ /\ handlerState' = [handlerState EXCEPT ![c] = "running"]
        /\ pc' = [pc EXCEPT ![c] = "awaitHandler"]
        /\ UNCHANGED << status, body, thrown >>
     \/ \E e \in ErrorValues :
          /\ handlerState' = [handlerState EXCEPT ![c] = "threw"]
          /\ thrown' = [thrown EXCEPT ![c] = e]
          /\ Respond(c, 500, HandlerErrorBody(e))
  /\ handlerCtx' = [handlerCtx EXCEPT ![c] = ctx[c]]
  /\ UNCHANGED << returned, req, inputChecks, mwCalls, mwState, connection,
                  connectionPool, duplex,
                  ctx, maps, mwCtx, mwWrote, seen, setupVars >>

\* HandlerSettles that answers with the bare value instead of {data: v}
HandlerSettles_bare(c) ==
  /\ pc[c] = "awaitHandler"
  /\ \/ \E v \in OutputValues :
          /\ handlerState' = [handlerState EXCEPT ![c] = "resolved"]
          /\ returned' = [returned EXCEPT ![c] = v]
          /\ Respond(c, 200, <<v>>)
          /\ UNCHANGED thrown
     \/ \E e \in ErrorValues :
          /\ handlerState' = [handlerState EXCEPT ![c] = "rejected"]
          /\ thrown' = [thrown EXCEPT ![c] = e]
          /\ Respond(c, 500, HandlerErrorBody(e))
          /\ UNCHANGED returned
  /\ UNCHANGED << req, inputChecks, mwCalls, mwState, handlerCalls, handlerArgs,
                  connection, connectionPool, duplex, ctxVars, setupVars >>

\* HandlerSettles whose catch calls the handler a second time before it
\* answers 500
HandlerSettles_retry(c) ==
  /\ pc[c] = "awaitHandler"
  /\ \/ \E v \in OutputValues :
          /\ handlerState' = [handlerState EXCEPT ![c] = "resolved"]
          /\ returned' = [returned EXCEPT ![c] = v]
          /\ Respond(c, 200, DataBody(v))
          /\ UNCHANGED << thrown, handlerCalls >>
     \/ \E e \in ErrorValues :
          /\ thrown' = [thrown EXCEPT ![c] = e]
          /\ IF handlerCalls[c] = 1
               THEN /\ handlerCalls' = [handlerCalls EXCEPT ![c] = 2]
                    /\ UNCHANGED << handlerState, pc, status, body >>
               ELSE /\ handlerState' = [handlerState EXCEPT ![c] = "rejected"]
                    /\ Respond(c, 500, HandlerErrorBody(e))
                    /\ UNCHANGED handlerCalls
          /\ UNCHANGED returned
  /\ UNCHANGED << req, inputChecks, mwCalls, mwState, handlerArgs,
                  connection, connectionPool, duplex, ctxVars, setupVars >>

\* the awaited handler returns v: 200 and JSON.stringify({data: v});
\* or it rejects with e: the handler catch
HandlerSettles(c) ==
  /\ pc[c] = "awaitHandler"
  /\ \/ \E v \in OutputValues :
          /\ handlerState' = [handlerState EXCEPT ![c] = "resolved"]
          /\ returned' = [returned EXCEPT ![c] = v]
          /\ Respond(c, 200, DataBody(v))
          /\ UNCHANGED thrown
     \/ \E e \in ErrorValues :
          /\ handlerState' = [handlerState EXCEPT ![c] = "rejected"]
          /\ thrown' = [thrown EXCEPT ![c] = e]
          /\ Respond(c, 500, HandlerErrorBody(e))
          /\ UNCHANGED returned
  /\ UNCHANGED << req, inputChecks, mwCalls, mwState, handlerCalls, handlerArgs,
                  connection, connectionPool, duplex, ctxVars, setupVars >>

\* SubscriptionHandlerSettles whose catch forwards the error to the client as
\* an error frame
SubscriptionHandlerSettles_errorFrame(c) ==
  /\ pc[c] = "done"
  /\ connection[c].exists
  /\ handlerState[c] = "running"
  /\ \/ /\ handlerState' = [handlerState EXCEPT ![c] = "resolved"]
        /\ UNCHANGED << thrown, connection >>
     \/ \E e \in ErrorValues :
          /\ handlerState' = [handlerState EXCEPT ![c] = "rejected"]
          /\ thrown' = [thrown EXCEPT ![c] = e]
          /\ connection' = [connection EXCEPT ![c] =
                              IF enqueueThrows(@) THEN @
                              ELSE enqueueFn(@, Frame("error", e))]
  /\ UNCHANGED << returned, pc, req, status, body, inputChecks, mwCalls, mwState,
                  handlerCalls, handlerArgs, connectionPool, duplex, ctxVars, setupVars >>

\* the detached SUBSCRIPTION handler settles; the .catch only logs
SubscriptionHandlerSettles(c) ==
  /\ pc[c] = "done"
  /\ connection[c].exists
  /\ handlerState[c] = "running"
  /\ \/ /\ handlerState' = [handlerState EXCEPT ![c] = "resolved"]
        /\ UNCHANGED thrown
     \/ \E e \in ErrorValues :
          /\ handlerState' = [handlerState EXCEPT ![c] = "rejected"]
          /\ thrown' = [thrown EXCEPT ![c] = e]
  /\ UNCHANGED << returned, pc, req, status, body, inputChecks, mwCalls, mwState,
                  handlerCalls, handlerArgs, connection, connectionPool, duplex, ctxVars, setupVars >>

\* the running SUBSCRIPTION handler calls connection.write(m)
Write(c) ==
  /\ connection[c].exists
  /\ handlerState[c] = "running"
  /\ connection[c].writes < MaxWrites
  /\ \E m \in OutMessages :
       connection' = [connection EXCEPT ![c] = write(@, m)]
  /\ UNCHANGED << callVars, connectionPool, duplex, ctxVars, setupVars >>

\* the running SUBSCRIPTION handler calls connection.close()
Close(c) ==
  /\ connection[c].exists
  /\ handlerState[c] = "running"
  /\ connection' = [connection EXCEPT ![c] = close(@)]
  /\ UNCHANGED << callVars, connectionPool, duplex, ctxVars, setupVars >>

\* the keepalive interval of the writer elapses
IntervalElapses(c) ==
  /\ connection[c].exists
  /\ connection[c].timer /\ ~connection[c].due
  /\ connection[c].ticks < MaxTicks
  /\ connection' = [connection EXCEPT ![c] = [@ EXCEPT !.due = TRUE, !.ticks = @ + 1]]
  /\ UNCHANGED << callVars, connectionPool, duplex, ctxVars, setupVars >>

\* the callback of an elapsed interval runs
KeepaliveTick(c) ==
  /\ connection[c].exists
  /\ connection[c].due
  /\ connection' = [connection EXCEPT ![c] = keepaliveTick(@)]
  /\ UNCHANGED << callVars, connectionPool, duplex, ctxVars, setupVars >>

\* the client goes away: the transport cancels the stream it was reading
TransportCancel(c) ==
  /\ connection[c].exists
  /\ status[c] = 200
  /\ connection[c].sinkOpen
  /\ connection' = [connection EXCEPT ![c] = [@ EXCEPT !.sinkOpen = FALSE]]
  /\ UNCHANGED << callVars, connectionPool, duplex, ctxVars, setupVars >>

\* Abort whose listener also takes the closed connection out of the pool
Abort_untrack(c) ==
  /\ connection[c].exists
  /\ ~connection[c].aborted
  /\ connection' = [connection EXCEPT ![c] = close([@ EXCEPT !.aborted = TRUE])]
  /\ connectionPool' = SelectSeq(connectionPool, LAMBDA d : d # c)
  /\ UNCHANGED << callVars, duplex, ctxVars, setupVars >>

\* the request's signal fires "abort": the listener awaits connWritter.close()
Abort(c) ==
  /\ connection[c].exists
  /\ ~connection[c].aborted
  /\ connection' = [connection EXCEPT ![c] = close([@ EXCEPT !.aborted = TRUE])]
  /\ UNCHANGED << callVars, connectionPool, duplex, ctxVars, setupVars >>

(***************************************************************************)
(* Server.start and Server.stop                                            *)
(***************************************************************************)
\* server.start(port): Bun.serve, and stop() as the handler of the signals
Start ==
  /\ ~server.started
  /\ server' = [server EXCEPT !.started = TRUE, !.listening = TRUE]
  /\ UNCHANGED << callVars, connection, connectionPool, duplex, ctxVars, builder,
                  apiSchema, stops, hook >>

\* stop() whose loop goes over the entries the pool held when it was called
stopFrom_snapshot(k, i, n) ==
  IF i <= n
    THEN LET closed == close(connection[connectionPool[i]]) IN
           /\ connection' = [connection EXCEPT ![connectionPool[i]] = closed]
           /\ stops' = [stops EXCEPT ![k] =
                          [pc |-> IF closed.lastClose = "threw" THEN "failed"
                                  ELSE "closing",
                           next |-> i, logged |-> n]]
           /\ UNCHANGED server
    ELSE /\ server' = [server EXCEPT !.listening = FALSE, !.listenerStops = @ + 1]
         /\ stops' = [stops EXCEPT ![k] = [pc |-> "stopping", next |-> i, logged |-> n]]
         /\ UNCHANGED connection

\* stop() from the entry at position i of the connection pool on, up to its
\* next await: `await conn.close()` on that entry, whose rejection ends the
\* call, or, past the last entry the pool holds by then,
\* `await this._server.stop()`; n is the length it logged when it was called
stopFrom(k, i, n) ==
  IF i <= Len(connectionPool)
    THEN LET closed == close(connection[connectionPool[i]]) IN
           /\ connection' = [connection EXCEPT ![connectionPool[i]] = closed]
           /\ stops' = [stops EXCEPT ![k] =
                          [pc |-> IF closed.lastClose = "threw" THEN "failed"
                                  ELSE "closing",
                           next |-> i, logged |-> n]]
           /\ UNCHANGED server
    ELSE /\ server' = [server EXCEPT !.listening = FALSE, !.listenerStops = @ + 1]
         /\ stops' = [stops EXCEPT ![k] = [pc |-> "stopping", next |-> i, logged |-> n]]
         /\ UNCHANGED connection

\* stop() that stops the listener before it closes the connections
StopCall_listenerFirst(k) ==
  /\ stops[k].pc = "idle"
  /\ ~server.exited
  /\ IF ~server.started
       THEN /\ stops' = [stops EXCEPT ![k] = [pc |-> "noop", next |-> 0, logged |-> 0]]
            /\ UNCHANGED << server, connection >>
       ELSE /\ server' = [server EXCEPT !.listening = FALSE, !.listenerStops = @ + 1]
            /\ stops' = [stops EXCEPT ![k] = [pc |-> "closing", next |-> 0,
                                                logged |-> Len(connectionPool)]]
            /\ UNCHANGED connection
  /\ UNCHANGED << callVars, connectionPool, duplex, ctxVars, builder, apiSchema,
                  hook >>

\* a call of server.stop(), by the program or as the handler of a signal:
\* "Nothing to stop" when _server is undefined, otherwise the loop begins
StopCall(k) ==
  /\ stops[k].pc = "idle"
  /\ ~server.exited
  /\ IF ~server.started
       THEN /\ stops' = [stops EXCEPT ![k] = [pc |-> "noop", next |-> 0, logged |-> 0]]
            /\ UNCHANGED << server, connection >>
       ELSE stopFrom(k, 1, Len(connectionPool))
  /\ UNCHANGED << callVars, connectionPool, duplex, ctxVars, builder, apiSchema,
                  hook >>

\* the awaited close() has returned: the loop goes on with the next entry
\* the pool holds by now
StopResume(k) ==
  /\ stops[k].pc = "closing"
  /\ ~server.exited
  /\ stopFrom(k, stops[k].next + 1, stops[k].logged)
  /\ UNCHANGED << callVars, connectionPool, duplex, ctxVars, builder, apiSchema,
                  hook >>

\* the awaited _server.stop() has returned: process.exit(0)
StopExit(k) ==
  /\ stops[k].pc = "stopping"
  /\ ~server.exited
  /\ server' = [server EXCEPT !.exited = TRUE]
  /\ stops' = [stops EXCEPT ![k] = [stops[k] EXCEPT !.pc = "exited"]]
  /\ UNCHANGED << callVars, connection, connectionPool, duplex, ctxVars, builder,
                  apiSchema, hook >>

(***************************************************************************)
(* Full-duplex operations                                                  *)
(***************************************************************************)
UpgradeBody == <<"websocket">>

\* what a listener of the given kind does with a message: a "reply" listener
\* calls conn.sendMessage(ReplyMessage), a "silent" one sends nothing
Replies(kind) == kind = "reply"

\* BidirectionalConnection.addOnMessageListener(callable): one more "msg"
\* listener on the event target, after those already registered
addOnMessageListener(d, kind) ==
  [d EXCEPT !.listeners = Append(@, [kind |-> kind, since |-> Len(d.inbound)])]

\* the message a callback of the given kind hands to conn.sendMessage
Sends(kind) == kind \in {"reply", "invalid"}
MessageOf(kind) == IF kind = "reply" THEN ReplyMessage ELSE InvalidReply

\* callable.callback(this, ev.detail).catch(...) for each of the calls: a
\* callback that sends leaves a sendMessage call waiting for its output
\* validation, the rejection of a failing one is caught and logged, the
\* promise of a hanging one stays pending and nothing waits for it
callbacks(d, calls) ==
  LET sends == SelectSeq(calls, LAMBDA k : Sends(d.listeners[k.listener].kind))
      failures == SelectSeq(calls, LAMBDA k : d.listeners[k.listener].kind = "failing")
      hanging == SelectSeq(calls, LAMBDA k : d.listeners[k.listener].kind = "hanging")
  IN [d EXCEPT !.delivered = @ \o calls,
               !.pending = @ \o [i \in 1..Len(sends) |->
                                   MessageOf(d.listeners[sends[i].listener].kind)],
               !.caught = @ + Len(failures),
               !.hung = @ + Len(hanging)]

\* a dispatch that awaits each callback before it starts the next one: it
\* stays at the first callback that never settles, and a later message
\* waits behind it
dispatchEvent_awaitEach(d, n) ==
  LET hanging == { i \in 1..Len(d.listeners) : d.listeners[i].kind = "hanging" }
      last == IF hanging = {} THEN Len(d.listeners)
              ELSE CHOOSE i \in hanging : \A j \in hanging : i <= j
  IN IF d.hung > 0 THEN d
     ELSE callbacks(d, [i \in 1..last |-> [listener |-> i, msg |-> n]])

\* a connection with one callback slot: only the listener registered last
\* is called
dispatchEvent_lastOnly(d, n) ==
  callbacks(d, IF d.listeners = <<>> THEN <<>>
               ELSE << [listener |-> Len(d.listeners), msg |-> n] >>)

\* a dispatch that stops at the first callback that fails
dispatchEvent_stopAtFailure(d, n) ==
  LET failing == { i \in 1..Len(d.listeners) : d.listeners[i].kind = "failing" }
      last == IF failing = {} THEN Len(d.listeners)
              ELSE CHOOSE i \in failing : \A j \in failing : i <= j
  IN callbacks(d, [i \in 1..last |-> [listener |-> i, msg |-> n]])

\* eventTarget.dispatchEvent: the callback of every listener is started, in
\* registration order
dispatchEvent(d, n) ==
  callbacks(d, [i \in 1..Len(d.listeners) |-> [listener |-> i, msg |-> n]])

\* _onClientMessage without the input validation: every frame is dispatched
onClientMessage_noValidation(d, m) ==
  LET received == [d EXCEPT !.inbound = Append(@, m)] IN
  dispatchEvent(received, Len(received.inbound))

\* BidirectionalConnection._onClientMessage(msg): an invalid message throws
\* (counted in errors), a valid one is dispatched
onClientMessage(d, m) ==
  LET received == [d EXCEPT !.inbound = Append(@, m)] IN
  IF ~InputConforms(m) THEN [received EXCEPT !.errors = @ + 1]
  ELSE dispatchEvent(received, Len(received.inbound))

\* sendMessage without the validation of the message
sendMessage_noValidation(d) ==
  [d EXCEPT !.sent = Append(@, Head(d.pending)), !.pending = Tail(@)]

\* BidirectionalConnection.sendMessage(msg), after its validation: a
\* conforming message is sent on the socket, another one is only logged
sendMessage(d) ==
  IF OutputConforms(Head(d.pending))
    THEN [d EXCEPT !.sent = Append(@, Head(d.pending)), !.pending = Tail(@)]
    ELSE [d EXCEPT !.pending = Tail(@)]

\* what the callback of a close listener does: its cleanup, or it rejects
CloseListenerKinds == {"cleanup", "failing"}

\* connection.addOnCloseMessageListener(callback)
addOnCloseMessageListener(d, kind) ==
  [d EXCEPT !.closeListeners = Append(@, kind)]

\* close that triggers the listeners and closes the socket at every call
closeDuplex_everyCall(d) ==
  [d EXCEPT !.closed = TRUE,
            !.closeLog = @ \o [i \in 1..Len(d.closeListeners) |-> i] \o <<0>>]

\* connection.close(reason?): nothing on a closed connection; otherwise
\* every close listener is triggered, each failure is caught, and then the
\* socket is closed
closeDuplex(d) ==
  IF d.closed THEN d
  ELSE [d EXCEPT !.closed = TRUE,
                 !.closeLog = [i \in 1..Len(d.closeListeners) |-> i] \o <<0>>,
                 !.caught = @ + Len(SelectSeq(d.closeListeners,
                                              LAMBDA k : k = "failing"))]

\* EXECUTE, BIDIRECTIONAL: the transport is upgraded, the connection is
\* created on the socket and the handler is called with it
ExecuteBidirectional(c) ==
  /\ pc[c] = "execute"
  /\ method(c) = "BIDIRECTIONAL"
  /\ duplex' = [duplex EXCEPT ![c] = NewBidirectionalConnection]
  /\ handlerCalls' = [handlerCalls EXCEPT ![c] = @ + 1]
  /\ handlerArgs' = [handlerArgs EXCEPT ![c] = <<"request", "connection", "context">>]
  /\ handlerState' = [handlerState EXCEPT ![c] = "running"]
  /\ Respond(c, 101, UpgradeBody)
  /\ handlerCtx' = [handlerCtx EXCEPT ![c] = ctx[c]]
  /\ UNCHANGED << returned, req, inputChecks, mwCalls, mwState, thrown, connection,
                  connectionPool, ctx, maps, mwCtx, mwWrote, seen, setupVars >>

\* the running BIDIRECTIONAL handler registers a message listener
AddOnMessageListener(c) ==
  /\ duplex[c].exists
  /\ handlerState[c] = "running"
  /\ Len(duplex[c].listeners) < MaxListeners
  /\ \E k \in ListenerKinds :
       duplex' = [duplex EXCEPT ![c] = addOnMessageListener(@, k)]
  /\ UNCHANGED << callVars, connection, connectionPool, ctxVars, setupVars >>

\* the BIDIRECTIONAL handler's promise settles; a rejection is only logged
DuplexHandlerSettles(c) ==
  /\ duplex[c].exists
  /\ handlerState[c] = "running"
  /\ \/ /\ handlerState' = [handlerState EXCEPT ![c] = "resolved"]
        /\ UNCHANGED thrown
     \/ \E e \in ErrorValues :
          /\ handlerState' = [handlerState EXCEPT ![c] = "rejected"]
          /\ thrown' = [thrown EXCEPT ![c] = e]
  /\ UNCHANGED << returned, pc, req, status, body, inputChecks, mwCalls, mwState,
                  handlerCalls, handlerArgs, connection, connectionPool, duplex, ctxVars, setupVars >>

\* the socket receives a frame from the client and hands it to the
\* connection's _onClientMessage
SocketMessage(c) ==
  /\ duplex[c].exists
  /\ Len(duplex[c].inbound) < MaxInbound
  /\ \E m \in DataValues :
       duplex' = [duplex EXCEPT ![c] = onClientMessage(@, m)]
  /\ UNCHANGED << callVars, connection, connectionPool, ctxVars, setupVars >>

\* the running BIDIRECTIONAL handler registers a close listener
AddOnCloseMessageListener(c) ==
  /\ duplex[c].exists
  /\ handlerState[c] = "running"
  /\ ~duplex[c].closed
  /\ Len(duplex[c].closeListeners) < MaxListeners
  /\ \E k \in CloseListenerKinds :
       duplex' = [duplex EXCEPT ![c] = addOnCloseMessageListener(@, k)]
  /\ UNCHANGED << callVars, connection, connectionPool, ctxVars, setupVars >>

\* the server side calls connection.close(reason)
CloseDuplex(c) ==
  /\ duplex[c].exists
  /\ duplex[c].closeCalls < MaxCloses
  /\ duplex' = [duplex EXCEPT ![c] = [closeDuplex(@) EXCEPT !.closeCalls = @ + 1]]
  /\ UNCHANGED << callVars, connection, connectionPool, ctxVars, setupVars >>

\* the client disconnects: the socket layer takes the same close path
ClientDisconnect(c) ==
  /\ duplex[c].exists
  /\ duplex[c].closeCalls < MaxCloses
  /\ duplex' = [duplex EXCEPT ![c] = [closeDuplex(@) EXCEPT !.closeCalls = @ + 1]]
  /\ UNCHANGED << callVars, connection, connectionPool, ctxVars, setupVars >>

\* a waiting sendMessage call resumes after its output validation
SendMessage(c) ==
  /\ duplex[c].exists
  /\ duplex[c].pending # <<>>
  /\ duplex' = [duplex EXCEPT ![c] = sendMessage(@)]
  /\ UNCHANGED << callVars, connection, connectionPool, ctxVars, setupVars >>

(***************************************************************************)
(* Specification                                                           *)
(***************************************************************************)
\* the steps of the dispatcher up to the execution of the handler
Dispatch(c) ==
  \/ Parse(c)
  \/ Resolve(c)
  \/ ValidateInput(c)
  \/ RunMiddleware(c)
  \/ MiddlewareSettles(c)

\* the dispatcher under every kind of request
Next ==
  \E c \in CallIds :
    \/ Receive(c)
    \/ Dispatch(c)
    \/ ExecuteSubscription(c)
    \/ ExecuteRequestResponse(c)
    \/ ExecuteBidirectional(c)
    \/ HandlerSettles(c)
    \/ SubscriptionHandlerSettles(c)
    \/ DuplexHandlerSettles(c)

Spec == Init /\ [][Next]_vars

\* SUBSCRIPTION calls and the life of their connections
NextStream ==
  \E c \in CallIds :
    \/ ReceiveStream(c)
    \/ Dispatch(c)
    \/ ExecuteSubscription(c)
    \/ SubscriptionHandlerSettles(c)
    \/ Write(c)
    \/ Close(c)
    \/ IntervalElapses(c)
    \/ KeepaliveTick(c)
    \/ TransportCancel(c)
    \/ Abort(c)

SpecStream == Init /\ [][NextStream]_vars

\* BIDIRECTIONAL calls and the life of their connections
NextDuplex ==
  \E c \in CallIds :
    \/ ReceiveDuplex(c)
    \/ Dispatch(c)
    \/ ExecuteBidirectional(c)
    \/ DuplexHandlerSettles(c)
    \/ AddOnMessageListener(c)
    \/ SocketMessage(c)
    \/ SendMessage(c)

SpecDuplex == Init /\ [][NextDuplex]_vars

\* BIDIRECTIONAL calls and the end of their connections
NextDuplexClose ==
  \E c \in CallIds :
    \/ ReceiveDuplex(c)
    \/ Dispatch(c)
    \/ ExecuteBidirectional(c)
    \/ DuplexHandlerSettles(c)
    \/ SocketMessage(c)
    \/ AddOnCloseMessageListener(c)
    \/ CloseDuplex(c)
    \/ ClientDisconnect(c)

SpecDuplexClose == Init /\ [][NextDuplexClose]_vars

\* the requests that reach a handler behind a middleware
ContextRequests ==
  { r \in Requests : /\ r.path = <<"_api">>
                     /\ r.envelope.json = "ok" /\ r.envelope.missing = "none"
                     /\ r.envelope.service = "Users"
                     /\ r.envelope.procedure = "GetUserById"
                     /\ InputConforms(r.envelope.data) }

ReceiveContext(c) == ReceiveFrom(c, ContextRequests)

\* concurrent calls whose middleware and handler use the request context
NextContext ==
  \E c \in CallIds :
    \/ ReceiveContext(c)
    \/ Dispatch(c)
    \/ ContextSet(c)
    \/ ExecuteRequestResponse(c)
    \/ ContextGet(c)
    \/ HandlerSettles(c)

SpecContext == Init /\ [][NextContext]_vars

\* the SUBSCRIPTION requests of a service without middleware
ShutdownRequests ==
  { r \in StreamRequests : r.envelope.service = "Open" }

\* a request is accepted while the listener listens
ReceiveShutdown(c) == server.listening /\ ReceiveFrom(c, ShutdownRequests)

\* SUBSCRIPTION calls on a server that is started and stopped
NextShutdown ==
  \/ Start
  \/ \E c \in CallIds :
       \/ ReceiveShutdown(c)
       \/ Parse(c)
       \/ Resolve(c)
       \/ ValidateInput(c)
       \/ ExecuteSubscription(c)
       \/ TransportCancel(c)
  \/ \E k \in StopIds :
       \/ StopCall(k)
       \/ StopResume(k)
       \/ StopExit(k)

SpecShutdown == Init /\ [][NextShutdown]_vars

\* the valid requests of a service that has a procedure of every method
PoolRequests ==
  { r \in Requests : /\ r.path = <<"_api">>
                     /\ r.envelope.json = "ok" /\ r.envelope.missing = "none"
                     /\ r.envelope.service = "Users"
                     /\ r.envelope.procedure \in DOMAIN services["Users"]
                     /\ r.envelope.data = "good" }

\* a request is accepted while the listener listens; the calls are numbered
\* in the order of their arrival
ReceivePool(c) ==
  /\ server.listening
  /\ \A d \in 1..(c - 1) : pc[d] # "idle"
  /\ ReceiveFrom(c, PoolRequests)

\* calls of every method, the end of their connections, and one shutdown
NextPool ==
  \/ Start
  \/ \E c \in CallIds :
       \/ ReceivePool(c)
       \/ Dispatch(c)
       \/ ExecuteSubscription(c)
       \/ ExecuteRequestResponse(c)
       \/ ExecuteBidirectional(c)
       \/ HandlerSettles(c)
       \/ Close(c)
       \/ Abort(c)
  \/ StopCall(1)
  \/ StopResume(1)
  \/ StopExit(1)

SpecPool == Init /\ [][NextPool]_vars

(***************************************************************************)
(* The hook useWebSocket: renders, effects, calls, timers, socket events   *)
(***************************************************************************)
serverVars ==
  << callVars, connection, connectionPool, duplex, ctxVars, builder, apiSchema,
     server, stops >>

\* a call of connect() may create a socket
CanCreate == Len(hook.sockets) < MaxSockets

\* the first render: the options are read
UseWebSocket ==
  /\ ~hook.rendered
  /\ \E r \in BOOLEAN, m \in {1, MaxReconnectAttempts}, com \in BOOLEAN :
       hook' = [hook EXCEPT !.rendered = TRUE, !.reconnect = r,
                            !.shouldReconnectRef = r,
                            !.maxReconnectAttempts = m, !.connectOnMount = com,
                            !.lastCall = "render"]
  /\ UNCHANGED serverVars

\* the effect that follows the change of the option reconnect
SetReconnect ==
  /\ hook.rendered
  /\ hook' = [hook EXCEPT !.reconnect = ~@, !.shouldReconnectRef = ~hook.reconnect,
                          !.lastCall = "setReconnect"]
  /\ UNCHANGED serverVars

\* the mount effect: a pending delayed cleanup is cancelled; a socket that is
\* open or connecting is reused, otherwise connect() if connectOnMount
Mount ==
  /\ hook.rendered /\ ~hook.isMountedRef
  /\ CanCreate
  /\ LET m == [hook EXCEPT !.isMountedRef = TRUE, !.cleanupDelayTimer = FALSE,
                           !.lastCall = "mount"]
     IN hook' =
          IF Live(m)
            THEN [m EXCEPT !.connectionStatus =
                             IF m.sockets[m.webSocketRef].readyState = "OPEN"
                               THEN "CONNECTED" ELSE "CONNECTING"]
          ELSE IF m.connectOnMount
            THEN [connect(m) EXCEPT !.disconnected = FALSE]
          ELSE m
  /\ UNCHANGED serverVars

\* the cleanup of the mount effect: the delayed cleanup is scheduled
Unmount ==
  /\ hook.isMountedRef
  /\ hook' = [hook EXCEPT !.isMountedRef = FALSE, !.cleanupDelayTimer = TRUE,
                          !.lastCall = "unmount"]
  /\ UNCHANGED serverVars

\* the delayed cleanup runs: cleanup() if the hook has not remounted
CleanupDelayFires ==
  /\ hook.cleanupDelayTimer
  /\ LET f == [hook EXCEPT !.cleanupDelayTimer = FALSE, !.lastCall = "cleanupDelay"]
     IN hook' = IF f.isMountedRef THEN f
                ELSE cleanup([f EXCEPT !.isManualDisconnectRef = TRUE])
  /\ UNCHANGED serverVars

\* the program calls connect()
Connect ==
  /\ hook.rendered
  /\ CanCreate
  /\ hook' = [connect(hook) EXCEPT !.disconnected = FALSE, !.lastCall = "connect"]
  /\ UNCHANGED serverVars

\* the program calls disconnect()
Disconnect ==
  /\ hook.rendered
  /\ hook' = [disconnect(hook) EXCEPT !.disconnected = TRUE, !.lastCall = "disconnect"]
  /\ UNCHANGED serverVars

\* the reconnect timeout expires: connect()
ReconnectTimerFires ==
  /\ hook.reconnectTimer
  /\ CanCreate
  /\ hook' = [connect([hook EXCEPT !.reconnectTimer = FALSE])
                EXCEPT !.lastCall = "reconnectTimer"]
  /\ UNCHANGED serverVars

\* the socket at position i opens: ws.onopen, if it is still attached
SocketOpens(i) ==
  /\ i \in 1..Len(hook.sockets)
  /\ hook.sockets[i].readyState = "CONNECTING"
  /\ LET o == [hook EXCEPT !.sockets[i].readyState = "OPEN"] IN
       hook' = IF o.sockets[i].attached THEN [onopen(o) EXCEPT !.lastCall = "onopen"]
               ELSE o
  /\ UNCHANGED serverVars

\* the socket at position i is closed: ws.onclose, if it is still attached
SocketCloses(i) ==
  /\ i \in 1..Len(hook.sockets)
  /\ hook.sockets[i].readyState \in {"CONNECTING", "OPEN", "CLOSING"}
  /\ LET x == [hook EXCEPT !.sockets[i].readyState = "CLOSED"] IN
       hook' = IF x.sockets[i].attached THEN [onclose(x) EXCEPT !.lastCall = "onclose"]
               ELSE x
  /\ UNCHANGED serverVars

\* the socket at position i has an error: ws.onerror
SocketError(i) ==
  /\ i \in 1..Len(hook.sockets)
  /\ hook.sockets[i].readyState \in {"CONNECTING", "OPEN"}
  /\ hook.sockets[i].attached
  /\ hook' = [onerror(hook) EXCEPT !.lastCall = "onerror"]
  /\ UNCHANGED serverVars

NextHook ==
  \/ UseWebSocket
  \/ SetReconnect
  \/ Mount
  \/ Unmount
  \/ CleanupDelayFires
  \/ Connect
  \/ Disconnect
  \/ ReconnectTimerFires
  \/ \E i \in 1..MaxSockets :
       \/ SocketOpens(i)
       \/ SocketCloses(i)
       \/ SocketError(i)

SpecHook == Init /\ [][NextHook]_vars

(***************************************************************************)
(* Construction of an implementation and of a schema                       *)
(***************************************************************************)
\* new ServiceImplementationBuilder(serviceSchema)
NewBuilder ==
  /\ ~builder.exists
  /\ \E schema \in BuilderSchemas :
       builder' = [NoBuilder EXCEPT !.exists = TRUE, !.serviceSchema = schema]
  /\ UNCHANGED << callVars, connection, connectionPool, duplex, ctxVars, apiSchema,
                  server, stops, hook >>

\* builder.registerProcedureImplementation(name, handler)
RegisterProcedureImplementation ==
  /\ builder.exists
  /\ \E name \in HandlerNames :
       builder' = [builder EXCEPT !.handlers = @ \cup {name}]
  /\ UNCHANGED << callVars, connection, connectionPool, duplex, ctxVars, apiSchema,
                  server, stops, hook >>

\* builder.setMiddleware(middleware)
SetMiddleware ==
  /\ builder.exists
  /\ builder' = [builder EXCEPT !.middleware = "function"]
  /\ UNCHANGED << callVars, connection, connectionPool, duplex, ctxVars, apiSchema,
                  server, stops, hook >>

\* builder.build(); builtFrom keeps what the builder held at the call
Build ==
  /\ builder.exists
  /\ builder' = [builder EXCEPT
                   !.result = build(builder),
                   !.builtFrom = [handlers |-> builder.handlers,
                                  middleware |-> builder.middleware],
                   !.failed = @ \/ build(builder).threw # "none"]
  /\ UNCHANGED << callVars, connection, connectionPool, duplex, ctxVars, apiSchema,
                  server, stops, hook >>

NextBuilder ==
  \/ NewBuilder
  \/ RegisterProcedureImplementation
  \/ SetMiddleware
  \/ Build

SpecBuilder == Init /\ [][NextBuilder]_vars

\* schema.registerService(service)
RegisterService ==
  /\ Len(apiSchema.log) < MaxRegistrations
  /\ \E service \in ServiceObjects :
       apiSchema' = registerService(apiSchema, service)
  /\ UNCHANGED << callVars, connection, connectionPool, duplex, ctxVars, builder,
                  server, stops, hook >>

NextRegistry == RegisterService

SpecRegistry == Init /\ [][NextRegistry]_vars

(***************************************************************************)
(* Properties                                                              *)
(***************************************************************************)
ErrorStatuses == {400, 404, 500}
ErrorOutcome(c) == status[c] \in ErrorStatuses

\* the call reached the dispatcher and its envelope was parsed
Parsed(c) ==
  /\ pc[c] \notin {"idle", "parse"}
  /\ Route(req[c].path) = "handler"
  /\ req[c].envelope.json = "ok"
  /\ req[c].envelope.missing = "none"

\* the registered names: own keys of the schema and of the implementation
ServiceRegistered(sv) == sv \in DOMAIN services /\ sv \in DOMAIN implementation
ProcedureRegistered(sv, p) ==
  /\ ServiceRegistered(sv)
  /\ p \in DOMAIN services[sv]
  /\ p \in implementation[sv] \ {"middleware"}

Registered(c) ==
  ProcedureRegistered(req[c].envelope.service, req[c].envelope.procedure)

Pieces(b) == { b[i] : i \in 1..Len(b) }

\* C1: the steps of a call run in the order parse, resolve, validate input,
\* middleware, execute, respond: the input is validated only for a resolved
\* call, the middleware is started only after the validation succeeded, the
\* handler only after the middleware (if any) completed successfully, a
\* response is given only by a finished call, and after an error response
\* nothing of the call changes any more.
C1_StepOrder ==
  \A c \in CallIds :
    /\ inputChecks[c] >= 1 => Parsed(c) /\ Registered(c)
    /\ mwCalls[c] >= 1 =>
         /\ inputChecks[c] = 1
         /\ InputConforms(req[c].envelope.data)
         /\ hasMiddleware(req[c].envelope.service)
    /\ handlerCalls[c] >= 1 =>
         /\ inputChecks[c] = 1
         /\ InputConforms(req[c].envelope.data)
         /\ IF hasMiddleware(req[c].envelope.service)
              THEN mwCalls[c] = 1 /\ mwState[c] = "resolved"
              ELSE mwCalls[c] = 0
    /\ status[c] # 0 => pc[c] = "done"

C1_ErrorAbsorbing ==
  \A c \in CallIds :
    ErrorOutcome(c) =>
      /\ pc'[c] = pc[c] /\ status'[c] = status[c] /\ body'[c] = body[c]
      /\ inputChecks'[c] = inputChecks[c]
      /\ mwCalls'[c] = mwCalls[c] /\ mwState'[c] = mwState[c]
      /\ handlerCalls'[c] = handlerCalls[c] /\ handlerState'[c] = handlerState[c]

\* C1: in every behaviour the steps of each call keep the order above and an
\* error response ends the call.
C1_DispatchOrder == []C1_StepOrder /\ [][C1_ErrorAbsorbing]_vars

\* a call of a service with a middleware went through every step
C1_Witness ==
  \E c \in CallIds :
    /\ mwState[c] = "resolved" /\ handlerState[c] = "resolved"
    /\ status[c] = 200
    /\ \E d \in CallIds : mwState[d] = "rejected" /\ status[d] = 500

\* C2: a resolved call whose data fails the input schema is answered with
\* 400; its middleware and handler are never invoked and no connection is
\* created or tracked for it.
C2_InvalidInput ==
  \A c \in CallIds :
    Parsed(c) /\ Registered(c) /\ ~InputConforms(req[c].envelope.data) =>
      /\ mwCalls[c] = 0
      /\ handlerCalls[c] = 0
      /\ ~connection[c].exists /\ ~duplex[c].exists
      /\ \A i \in 1..Len(connectionPool) : connectionPool[i] # c
      /\ pc[c] \in {"resolve", "validate", "done"}
      /\ pc[c] = "done" => status[c] = 400 /\ body[c] = ValidationErrorBody

C2_Witness ==
  \E c \in CallIds :
    /\ inputChecks[c] = 1 /\ ~InputConforms(req[c].envelope.data)
    /\ method(c) = "SUBSCRIPTION"
    /\ status[c] = 400

\* C3: when the middleware throws or rejects, the call is answered with 500
\* and its handler is never invoked, whatever the method of the procedure.
C3_MiddlewareFailure ==
  \A c \in CallIds :
    mwState[c] \in {"threw", "rejected"} =>
      /\ pc[c] = "done" /\ status[c] = 500
      /\ handlerCalls[c] = 0 /\ handlerState[c] = "none"
      /\ ~connection[c].exists /\ ~duplex[c].exists

C3_Witness ==
  \E c, d \in CallIds :
    /\ mwState[c] = "rejected" /\ method(c) \in {"SUBSCRIPTION", "BIDIRECTIONAL"}
    /\ mwState[d] = "threw" /\ method(d) \in {"QUERY", "MUTATION"}
    /\ status[c] = 500 /\ status[d] = 500

\* C4: a parsed call that names a service or a procedure that is not
\* registered is answered with 404, the body contains the unknown name, and
\* neither validation nor middleware nor handler runs.
C4_NotFound ==
  \A c \in CallIds :
    Parsed(c) /\ ~Registered(c) =>
      /\ inputChecks[c] = 0 /\ mwCalls[c] = 0 /\ handlerCalls[c] = 0
      /\ pc[c] = "done" =>
           /\ status[c] = 404
           /\ IF ServiceRegistered(req[c].envelope.service)
                THEN req[c].envelope.procedure \in Pieces(body[c])
                ELSE req[c].envelope.service \in Pieces(body[c])

\* C5: a call with a malformed envelope (unparseable JSON, or a missing
\* service, procedure or data) is answered with 400.
C5_MalformedIs400 ==
  \A c \in CallIds :
    /\ Route(req[c].path) = "handler"
    /\ pc[c] = "done"
    /\ req[c].envelope.json = "bad" \/ req[c].envelope.missing # "none"
    => status[c] = 400

\* C5 (amended): an envelope that is not parseable JSON is answered with 500
\* and the fixed text of the outer catch; a parseable envelope that lacks
\* service, procedure or data is answered with 400; neither is resolved.
C5_Malformed ==
  \A c \in CallIds :
    /\ Route(req[c].path) = "handler"
    /\ pc[c] \notin {"idle", "parse"}
    /\ req[c].envelope.json = "bad" \/ req[c].envelope.missing # "none"
    => /\ pc[c] = "done"
       /\ inputChecks[c] = 0 /\ handlerCalls[c] = 0
       /\ IF req[c].envelope.json = "bad"
            THEN status[c] = 500 /\ body[c] = UnparseableBody
            ELSE status[c] = 400 /\ body[c] = EnvelopeErrorBody(req[c].envelope.missing)

C5_Witness ==
  \E c, d \in CallIds :
    /\ req[c].envelope.json = "bad" /\ req[c].envelope.carrier = "payload"
    /\ status[c] = 500
    /\ req[d].envelope.missing = "data" /\ status[d] = 400

\* C6: every request whose path is outside the _api prefix receives 400.
C6_OutsidePrefixIs400 ==
  \A c \in CallIds :
    pc[c] = "done" /\ FirstSegment(req[c].path) # "_api" => status[c] = 400

\* C7: a QUERY or MUTATION call whose handler returns v is answered with 200
\* and the body {data: v}; one whose handler throws or rejects, with 500.
C7_RequestResponse ==
  \A c \in CallIds :
    Parsed(c) /\ Registered(c) /\ method(c) \in {"QUERY", "MUTATION"} =>
      /\ handlerState[c] = "resolved" =>
           /\ returned[c] \in OutputValues
           /\ pc[c] = "done" /\ status[c] = 200
           /\ body[c] = <<"{\"data\":", returned[c], "}">>
      /\ handlerState[c] \in {"threw", "rejected"} =>
           pc[c] = "done" /\ status[c] = 500
      /\ status[c] = 200 => handlerState[c] = "resolved"

C7_Witness ==
  \E c, d \in CallIds :
    /\ returned[c] = "true" /\ status[c] = 200 /\ method(c) = "QUERY"
    /\ handlerState[d] = "rejected" /\ status[d] = 500 /\ method(d) = "MUTATION"

\* C8: two calls that failed with 500 and differ only in the value their
\* middleware or handler raised have the same status and the same body.
C8_OpaqueFailure ==
  \A c, d \in CallIds :
    /\ status[c] = 500 /\ status[d] = 500
    /\ req[c] = req[d]
    /\ mwState[c] = mwState[d] /\ handlerState[c] = handlerState[d]
    /\ thrown[c] # "none" /\ thrown[d] # "none"
    => body[c] = body[d]

\* C9: a SUBSCRIPTION call whose handler was started is answered with 200 and
\* the stream while the handler is still running; the rejection of the handler
\* changes neither the response nor the connection (no frame, no close).
C9_Accepted ==
  \A c \in CallIds :
    connection[c].exists /\ handlerState[c] \in {"running", "resolved", "rejected"} =>
      pc[c] = "done" /\ status[c] = 200 /\ body[c] = StreamBody

C9_RejectionOnlyLogged ==
  \A c \in CallIds :
    connection[c].exists /\ handlerState[c] = "running" /\ handlerState'[c] # "running" =>
      /\ status'[c] = status[c] /\ body'[c] = body[c]
      /\ connection'[c] = connection[c]
      /\ connectionPool' = connectionPool

\* C9: in every behaviour a started SUBSCRIPTION handler leaves the 200 stream
\* response in place and its settling touches neither response nor connection.
C9_DetachedHandler == []C9_Accepted /\ [][C9_RejectionOnlyLogged]_vars

\* the handler wrote a message and then rejected: the connection is open
C9_Witness ==
  \E c \in CallIds :
    /\ handlerState[c] = "rejected" /\ status[c] = 200
    /\ connection[c].exists /\ ~connection[c].closed /\ connection[c].timer
    /\ connection[c].frames = <<ConnectedFrame, ContentFrame("a")>>

\* C10: a BIDIRECTIONAL call that passes resolution, validation and middleware
\* upgrades the transport and gets one connection, its handler is invoked once
\* with (request, connection, context); every valid inbound frame received
\* after a listener was registered is delivered to it once, so the replies of
\* the replying listeners, sent or waiting to be sent, are one per valid
\* message and listener.
ValidSince(d, n) ==
  Cardinality({ j \in (n + 1)..Len(d.inbound) : InputConforms(d.inbound[j]) })

DeliveredTo(d, i) ==
  Cardinality({ k \in 1..Len(d.delivered) : d.delivered[k].listener = i })

RECURSIVE RepliesDue(_, _)
RepliesDue(d, i) ==
  IF i = 0 THEN 0
  ELSE RepliesDue(d, i - 1)
       + (IF Replies(d.listeners[i].kind) THEN ValidSince(d, d.listeners[i].since)
          ELSE 0)

C11_SameContext(c) ==
  /\ mwCtx[c] # 0 => mwCtx[c] = ctx[c]
  /\ handlerCtx[c] # 0 => handlerCtx[c] = ctx[c]

C11_Private ==
  \A c, d \in CallIds : c # d /\ ctx[c] # 0 => ctx[c] # ctx[d]

C11_HandlerReads(c) ==
  handlerCtx[c] # 0 =>
    /\ maps[handlerCtx[c]] = {[key |-> k, value |-> c] : k \in mwWrote[c]}
    /\ seen[c] \subseteq maps[handlerCtx[c]]

C11_FreshEmpty ==
  \A c \in CallIds : ctx[c] = 0 /\ ctx'[c] # 0 => maps'[ctx'[c]] = {}

C11_RequestContext ==
  /\ [](C11_Private /\ \A c \in CallIds : C11_SameContext(c) /\ C11_HandlerReads(c))
  /\ [][C11_FreshEmpty]_vars

\* the handler of one call has read what its middleware set while the
\* middleware of another call is setting keys of its own
C11_Witness ==
  \E c, d \in CallIds :
    /\ c # d
    /\ handlerState[c] = "running" /\ seen[c] # {} /\ seen[c] = maps[ctx[c]]
    /\ mwState[d] = "running" /\ mwWrote[d] # {}

\* what the builder held when build() was last called
Built == builder.result.threw # "unbuilt"
RequiredAtBuild ==
  { builder.serviceSchema.procedures[i] : i \in 1..Len(builder.serviceSchema.procedures) }
HandlersAtBuild == builder.builtFrom.handlers
MiddlewareRequired == builder.serviceSchema.middlewareDescription # Undefined
MiddlewareAtBuild == builder.builtFrom.middleware # Undefined
Listed(names) == { names[i] : i \in 1..Len(names) }

(***************************************************************************)
(* C12: build() throws the missing-procedures error exactly when a         *)
(* procedure of the definition has no handler, and the error lists exactly *)
(* the procedures without a handler; handlers under other names are only   *)
(* warned about; once every procedure has a handler (and the middleware    *)
(* requirement is met) build() succeeds, also after an earlier failure.    *)
(***************************************************************************)
C12_MissingProcedures ==
  Built =>
    /\ builder.result.threw = "missing" <=> RequiredAtBuild \ HandlersAtBuild # {}
    /\ builder.result.threw = "missing" =>
          Listed(builder.result.missing) = RequiredAtBuild \ HandlersAtBuild
    /\ builder.result.threw \in {"missing", "middleware", "none"}
    /\ RequiredAtBuild \subseteq HandlersAtBuild
          /\ (MiddlewareRequired => MiddlewareAtBuild)
          => /\ builder.result.threw = "none"
             /\ builder.result.warned = HandlersAtBuild \ RequiredAtBuild
             /\ HandlersAtBuild \subseteq builder.result.keys

\* a build that succeeds, with a handler under a misspelt name, after a
\* build of the same builder that failed for a missing procedure
C12_Witness ==
  /\ builder.failed
  /\ builder.result.threw = "none"
  /\ ~MiddlewareRequired
  /\ RequiredAtBuild # {}
  /\ "GetUserByID" \in builder.result.warned

(***************************************************************************)
(* C13: when the definition has a middleware description, build() throws   *)
(* as long as no middleware is set, even with a handler for every          *)
(* procedure, and succeeds once one is set; without a description build()  *)
(* never throws the middleware error.                                      *)
(***************************************************************************)
C13_MiddlewareRequirement ==
  Built =>
    /\ MiddlewareRequired /\ ~MiddlewareAtBuild => builder.result.threw # "none"
    /\ builder.result.threw = "middleware" <=>
          /\ RequiredAtBuild \subseteq HandlersAtBuild
          /\ MiddlewareRequired /\ ~MiddlewareAtBuild
    /\ MiddlewareRequired /\ MiddlewareAtBuild
          /\ RequiredAtBuild \subseteq HandlersAtBuild
          => /\ builder.result.threw = "none"
             /\ "middleware" \in builder.result.keys
    /\ ~MiddlewareRequired => builder.result.threw # "middleware"

\* every procedure has a handler and build() throws for the middleware
C13_Witness ==
  /\ builder.result.threw = "middleware"
  /\ RequiredAtBuild = {"GetUserById", "ChangeUsername", "StreamName"}
  /\ RequiredAtBuild \subseteq HandlersAtBuild

\* the position of the last registration under a name
LastRegistration(log, n) ==
  CHOOSE i \in 1..Len(log) :
    log[i].name = n /\ \A j \in (i + 1)..Len(log) : log[j].name # n

(***************************************************************************)
(* C14: registerService puts the service under its name, replacing (with   *)
(* a warning) the service that was there, and leaves every other entry as  *)
(* it was: the registry maps each registered name to the service that was  *)
(* registered last under it.                                               *)
(***************************************************************************)
C14_Latest ==
  /\ DOMAIN apiSchema.services = { apiSchema.log[i].name : i \in 1..Len(apiSchema.log) }
  /\ \A n \in DOMAIN apiSchema.services :
       apiSchema.services[n] = apiSchema.log[LastRegistration(apiSchema.log, n)]
  /\ apiSchema.warnings =
       Cardinality({ i \in 1..Len(apiSchema.log) :
                       \E j \in 1..(i - 1) : apiSchema.log[j].name = apiSchema.log[i].name })

C14_Frame ==
  apiSchema.log' # apiSchema.log =>
    LET service == apiSchema.log'[Len(apiSchema.log')] IN
      /\ apiSchema.log' = Append(apiSchema.log, service)
      /\ DOMAIN apiSchema.services' = DOMAIN apiSchema.services \cup {service.name}
      /\ apiSchema.services'[service.name] = service
      /\ \A n \in DOMAIN apiSchema.services \ {service.name} :
           apiSchema.services'[n] = apiSchema.services[n]

C14_RegisterService == []C14_Latest /\ [][C14_Frame]_vars

\* a service was replaced by another of its name while a second name kept
\* its service
C14_Witness ==
  /\ apiSchema.warnings > 0
  /\ Cardinality(DOMAIN apiSchema.services) > 1
  /\ \E i, j \in 1..Len(apiSchema.log) :
       /\ i < j
       /\ apiSchema.log[i].name = apiSchema.log[j].name
       /\ apiSchema.log[i] # apiSchema.log[j]
       /\ apiSchema.services[apiSchema.log[j].name] = apiSchema.log[j]

\* the payloads of the content frames, in the order of the frames
Payloads(frames) ==
  LET content == SelectSeq(frames, LAMBDA f : f.event = "content")
  IN [i \in 1..Len(content) |-> content[i].data]
\* the number of frames equal to the given one
Count(frames, frame) == Len(SelectSeq(frames, LAMBDA f : f = frame))
CloseCalled(c) == connection[c].lastClose # "none"

(***************************************************************************)
(* C15: the first frame of a connection is the connected marker and no     *)
(* other frame is; the content frames carry the messages of the write()    *)
(* calls made on the open connection, one frame per call and in the order  *)
(* of the calls (keepalive markers may lie between them); a close marker   *)
(* is the last frame, so that no frame of any kind follows it.             *)
(***************************************************************************)
C15_FrameOrder ==
  \A c \in CallIds :
    connection[c].exists =>
      LET f == connection[c].frames IN
        /\ Len(f) >= 1 /\ f[1] = ConnectedFrame
        /\ \A i \in 2..Len(f) : f[i] # ConnectedFrame
        /\ Payloads(f) = connection[c].accepted
        /\ \A i \in 1..Len(f) : f[i] = CloseFrame => i = Len(f)

\* write("a"), write("b"), close() on a connection without keepalive tick
C15_Witness ==
  \E c \in CallIds :
    connection[c].frames =
      << ConnectedFrame, ContentFrame("a"), ContentFrame("b"), CloseFrame >>

(***************************************************************************)
(* C16: close() is idempotent: once close() has been called, the close     *)
(* frame is there at most once, the timer is cancelled, and any further    *)
(* call is the logged no-op, which changes nothing.                        *)
(***************************************************************************)
C16_IdempotentClose ==
  \A c \in CallIds :
    CloseCalled(c) =>
      /\ Count(connection[c].frames, CloseFrame) <= 1
      /\ ~connection[c].timer
      /\ close(connection[c]) = [connection[c] EXCEPT !.lastClose = "noop"]

(***************************************************************************)
(* C17: the closed flag is monotonic: no step of the connection (write,    *)
(* close, keepalive tick, transport cancel, abort) resets it.              *)
(***************************************************************************)
C17_Step == \A c \in CallIds : connection[c].closed => connection'[c].closed

C17_ClosedMonotonic == [][C17_Step]_vars

\* a closed connection after a later write(), a later close() and the abort
C17_Witness ==
  \E c \in CallIds :
    /\ connection[c].closed
    /\ connection[c].lastWrite = "logged"
    /\ connection[c].lastClose = "noop"
    /\ connection[c].aborted

(***************************************************************************)
(* C18: write() never throws to its caller; on a closed connection, or on  *)
(* a sink that rejects the frame, the call is logged, appends no frame     *)
(* and leaves the connection as it was.                                    *)
(***************************************************************************)
C18_WriteNeverThrows ==
  \A c \in CallIds :
    LET w == connection[c] IN
      /\ "write" \notin w.escaped
      /\ w.lastWrite # "threw"
      /\ w.exists /\ (w.closed \/ ~w.sinkOpen) =>
            \A m \in OutMessages :
              write(w, m) = [w EXCEPT !.writes = @ + 1, !.lastWrite = "logged"]

\* a write() that was framed, then a write() that the cancelled sink of a
\* connection that is not closed rejected
C18_Witness ==
  \E c \in CallIds :
    /\ connection[c].writes = 2
    /\ Len(connection[c].accepted) = 1
    /\ connection[c].lastWrite = "logged"
    /\ ~connection[c].closed /\ ~connection[c].sinkOpen
    /\ Len(connection[c].frames) = 2

\* the intervals of the writer that can still fire: the one whose handle the
\* writer holds, while it is not cancelled, and those started besides it
LiveTimers(w) ==
  (IF w.timer THEN 1 ELSE 0) + (IF w.started > 1 THEN w.started - 1 ELSE 0)

(***************************************************************************)
(* C19: a connection has at most one live keepalive timer: it is started   *)
(* once, when the writer is created, it is cancelled once, by a call of    *)
(* close(), it is never started again, and a closed connection has none.   *)
(***************************************************************************)
C19_AtMostOne ==
  \A c \in CallIds :
    LET w == connection[c] IN
      /\ LiveTimers(w) <= 1
      /\ w.exists => w.started = 1
      /\ ~w.exists \/ w.closed => LiveTimers(w) = 0

C19_Step ==
  \A c \in CallIds :
    LET w == connection[c] IN
      /\ w.timer /\ ~connection'[c].timer =>
            /\ w.lastClose = "none"
            /\ connection'[c].lastClose \in {"closed", "threw"}
      /\ w.exists /\ ~w.timer => ~connection'[c].timer
      /\ w.exists => connection'[c].started = w.started

C19_OneTimer == []C19_AtMostOne /\ [][C19_Step]_vars

\* a timer that fired, was cancelled by close(), and stayed cancelled at the
\* next close()
C19_Witness ==
  \E c \in CallIds :
    /\ connection[c].closed /\ ~connection[c].timer
    /\ connection[c].ticks > 0
    /\ connection[c].lastClose = "noop"

(***************************************************************************)
(* C20: from the call of close() on, no keepalive marker is appended,      *)
(* whatever the interleaving of the ticks with close(), a tick that was    *)
(* due when close() ran included.                                          *)
(***************************************************************************)
C20_Step ==
  \A c \in CallIds :
    connection'[c].lastClose # "none" =>
      Count(connection'[c].frames, KeepaliveFrame)
        = Count(connection[c].frames, KeepaliveFrame)

C20_NoKeepaliveAfterClose == [][C20_Step]_vars

\* close() ran while a tick was due, after an earlier tick had appended its
\* marker
C20_Witness ==
  \E c \in CallIds :
    /\ CloseCalled(c)
    /\ connection[c].dropped
    /\ Count(connection[c].frames, KeepaliveFrame) = 1

(***************************************************************************)
(* C21: after the abort of the request the connection is as after an       *)
(* explicit close(): the closed flag is true, the keepalive timer is       *)
(* cancelled and the sink is closed; an abort and an explicit close        *)
(* together append one close frame at most.                                *)
(***************************************************************************)
C21_AbortCloses ==
  \A c \in CallIds :
    connection[c].aborted =>
      /\ connection[c].closed
      /\ ~connection[c].timer
      /\ ~connection[c].sinkOpen
      /\ Count(connection[c].frames, CloseFrame) <= 1

\* procedureDefinition.output.safeParse(m).success for the StreamName procedure
ConformsToStreamOutput(m) == m \in {"a", "b"}

(***************************************************************************)
(* C22: every content frame of a push connection carries a message that    *)
(* conforms to the output schema of the procedure: a message that does not *)
(* is dropped.                                                             *)
(***************************************************************************)
C22_OutputValidated ==
  \A c \in CallIds :
    \A i \in 1..Len(connection[c].frames) :
      connection[c].frames[i].event = "content" =>
        ConformsToStreamOutput(connection[c].frames[i].data)

\* the callbacks started for the message at position n, in the order of
\* their start
CallsFor(d, n) == SelectSeq(d.delivered, LAMBDA k : k.msg = n)
\* the listeners registered before the message at position n arrived: the
\* first ones of d.listeners
RegisteredBefore(d, n) ==
  Cardinality({ i \in 1..Len(d.listeners) : d.listeners[i].since < n })

(***************************************************************************)
(* C23: an inbound message that passes the input validation starts the     *)
(* callback of every listener registered by then, once each and in the     *)
(* order of registration, and the messages are dispatched in the order of  *)
(* arrival; a message that fails it starts no callback and makes           *)
(* _onClientMessage reject.                                                *)
(***************************************************************************)
C23_FanOut ==
  \A c \in CallIds :
    LET d == duplex[c] IN
      /\ \A n \in 1..Len(d.inbound) :
           CallsFor(d, n) =
             IF InputConforms(d.inbound[n])
               THEN [i \in 1..RegisteredBefore(d, n) |-> [listener |-> i, msg |-> n]]
               ELSE <<>>
      /\ \A k \in 1..(Len(d.delivered) - 1) : d.delivered[k].msg <= d.delivered[k + 1].msg
      /\ d.errors = Cardinality({ n \in 1..Len(d.inbound) : ~InputConforms(d.inbound[n]) })

\* two listeners, an invalid message and then a valid one
C23_Witness ==
  \E c \in CallIds :
    /\ Len(duplex[c].listeners) = 2
    /\ duplex[c].inbound = <<"bad", "good">>
    /\ duplex[c].delivered = << [listener |-> 1, msg |-> 2], [listener |-> 2, msg |-> 2] >>
    /\ duplex[c].errors = 1

C25_Step ==
  \A c \in CallIds :
    LET d == duplex[c] IN
      d.pending # <<>> /\ duplex'[c].pending = Tail(d.pending) =>
        duplex'[c] = IF OutputConforms(Head(d.pending))
                       THEN [d EXCEPT !.pending = Tail(@), !.sent = Append(@, Head(d.pending))]
                       ELSE [d EXCEPT !.pending = Tail(@)]

C25_SendGuard ==
  /\ [](\A c \in CallIds : \A k \in 1..Len(duplex[c].sent) :
          OutputConforms(duplex[c].sent[k]))
  /\ [][C25_Step]_vars

\* a listener sent a message that does not conform, another one a message
\* that does: only the second reached the socket
C25_Witness ==
  \E c \in CallIds :
    /\ Len(duplex[c].listeners) = 2
    /\ duplex[c].listeners[1].kind = "invalid"
    /\ duplex[c].listeners[2].kind = "reply"
    /\ Len(duplex[c].delivered) = 2
    /\ duplex[c].pending = <<>>
    /\ duplex[c].sent = <<ReplyMessage>>
    /\ ~duplex[c].closed

(***************************************************************************)
(* C26: close on a full-duplex connection is idempotent: after any number  *)
(* of close calls and disconnects every close listener was triggered once, *)
(* the failing ones included, and the socket was closed once, after them.  *)
(***************************************************************************)
C26_CloseOnce ==
  \A c \in CallIds :
    LET d == duplex[c] IN
      /\ d.closed <=> d.closeCalls > 0
      /\ d.closeLog = IF d.closed
                        THEN [i \in 1..Len(d.closeListeners) |-> i] \o <<0>>
                        ELSE <<>>

\* two close calls on a connection with a failing close listener and
\* another one
C26_Witness ==
  \E c \in CallIds :
    /\ duplex[c].closeCalls = 2
    /\ duplex[c].closeListeners = <<"failing", "cleanup">>
    /\ duplex[c].closeLog = <<1, 2, 0>>

(***************************************************************************)
(* C27: stop() stops the listener only after it has called close() on      *)
(* every connection the pool holds: at each call of _server.stop() every   *)
(* entry of the pool has had its close() called.                           *)
(***************************************************************************)
C27_Step ==
  server'.listenerStops > server.listenerStops =>
    \A i \in 1..Len(connectionPool) : CloseCalled(connectionPool[i])

C27_CloseBeforeStop == [][C27_Step]_vars

\* the listener was stopped after the close of two tracked connections
C27_Witness ==
  /\ server.listenerStops = 1
  /\ Len(connectionPool) = 2
  /\ \A i \in 1..Len(connectionPool) : connection[connectionPool[i]].closed

(***************************************************************************)
(* C28: shutdown is idempotent: of all the calls of stop() one at most     *)
(* goes through the pool and stops the listener, the others are no-ops.    *)
(***************************************************************************)
C28_ShutdownOnce ==
  /\ server.listenerStops <= 1
  /\ Cardinality({ k \in StopIds : stops[k].pc \notin {"idle", "noop"} }) <= 1

(***************************************************************************)
(* C29: the connection pool is append-only and holds push connections      *)
(* only: it lists, once each and in the order of their execute step, the   *)
(* SUBSCRIPTION calls whose execute step has run, so its length is their   *)
(* number; a call of another method is never listed; and no step (close,   *)
(* abort, shutdown or any other) removes or reorders an entry.             *)
(***************************************************************************)
\* the calls whose execute step has run
Executed == { c \in CallIds : handlerCalls[c] > 0 }

C29_Tracked ==
  /\ Len(connectionPool) =
       Cardinality({ c \in Executed : method(c) = "SUBSCRIPTION" })
  /\ \A i \in 1..Len(connectionPool) :
       /\ connectionPool[i] \in Executed
       /\ method(connectionPool[i]) = "SUBSCRIPTION"
       /\ connection[connectionPool[i]].exists
       /\ \A j \in 1..Len(connectionPool) :
            connectionPool[i] = connectionPool[j] => i = j

C29_AppendOnly ==
  /\ Len(connectionPool') >= Len(connectionPool)
  /\ Len(connectionPool') <= Len(connectionPool) + 1
  /\ SubSeq(connectionPool', 1, Len(connectionPool)) = connectionPool
  /\ Len(connectionPool') = Len(connectionPool) + 1 =>
       \E c \in CallIds :
         /\ pc[c] = "execute" /\ method(c) = "SUBSCRIPTION"
         /\ connectionPool' = Append(connectionPool, c)

C29_Pool == []C29_Tracked /\ [][C29_AppendOnly]_vars

\* a closed and an aborted connection are still listed after the shutdown,
\* and the call of another method that was executed is not
C29_Witness ==
  /\ server.exited
  /\ Len(connectionPool) = 1
  /\ connection[connectionPool[1]].aborted
  /\ connection[connectionPool[1]].closed
  /\ \E c \in Executed : method(c) # "SUBSCRIPTION"

(***************************************************************************)
(* C30: the handler of a call is invoked at most once, and exactly once    *)
(* when the call has gone through the execute step (it parsed, resolved,   *)
(* passed the validation and, where there is one, the middleware),         *)
(* whatever the method of its procedure.                                   *)
(***************************************************************************)
\* the call passed every step before EXECUTE and the execute step has run
PastExecute(c) ==
  /\ Parsed(c) /\ Registered(c)
  /\ inputChecks[c] = 1
  /\ InputConforms(req[c].envelope.data)
  /\ hasMiddleware(req[c].envelope.service) => mwState[c] = "resolved"
  /\ pc[c] \in {"awaitHandler", "done"}

C30_HandlerOnce ==
  \A c \in CallIds :
    /\ handlerCalls[c] <= 1
    /\ handlerCalls[c] = 1 <=> PastExecute(c)

\* a request/response call whose handler rejected and a push call whose
\* handler threw: each handler was invoked once
C30_Witness ==
  \E c, d \in CallIds :
    /\ PastExecute(c) /\ method(c) = "MUTATION"
    /\ handlerState[c] = "rejected" /\ handlerCalls[c] = 1
    /\ PastExecute(d) /\ method(d) = "SUBSCRIPTION"
    /\ handlerState[d] = "threw" /\ handlerCalls[d] = 1

(***************************************************************************)
(* C31: close() never throws to its caller, and once it was called the     *)
(* closed flag is true and the keepalive timer is cancelled, also when     *)
(* the transport had cancelled the sink before the call.                   *)
(***************************************************************************)
C31_CloseNeverThrows ==
  \A c \in CallIds :
    connection[c].exists /\ CloseCalled(c) =>
      /\ connection[c].lastClose # "threw"
      /\ connection[c].closed
      /\ ~connection[c].timer

(***************************************************************************)
(* C32: no keepalive tick raises an error out of its timer callback: the   *)
(* failure of a tick on a sink the transport has closed stays inside the   *)
(* connection.                                                             *)
(***************************************************************************)
C32_TickContained ==
  \A c \in CallIds : "keepalive" \notin connection[c].escaped

(***************************************************************************)
(* C33: a call answered with an error (400, 404 or 500) has no connection  *)
(* in the pool and no live keepalive timer: a connection is tracked, and   *)
(* its timer runs, only for a SUBSCRIPTION call answered with the 200      *)
(* stream.                                                                 *)
(***************************************************************************)
C33_ErrorLeavesNothing ==
  \A c \in CallIds :
    status[c] \in {400, 404, 500} =>
      /\ \A i \in 1..Len(connectionPool) : connectionPool[i] # c
      /\ LiveTimers(connection[c]) = 0

(***************************************************************************)
(* C34: when stop() has gone through the pool and stops the listener,      *)
(* every connection the pool holds is closed and its keepalive timer is    *)
(* cancelled, the connections of the SUBSCRIPTION calls that were          *)
(* accepted after stop() was called included.                              *)
(***************************************************************************)
C34_Step ==
  server'.listenerStops > server.listenerStops =>
    \A i \in 1..Len(connectionPool) :
      /\ connection[connectionPool[i]].closed
      /\ ~connection[connectionPool[i]].timer

C35_StopReachesListener ==
  \A k \in StopIds : stops[k].pc # "failed"

(***************************************************************************)
(* C36: the callbacks of one inbound message are started in registration   *)
(* order without waiting for one another: after the callback of a          *)
(* listener that never completes was started, the callbacks of the         *)
(* listeners registered after it are started for the same message, and     *)
(* every later valid message starts the callbacks of all its listeners.    *)
(***************************************************************************)
C36_NoWaiting ==
  \A c \in CallIds :
    LET d == duplex[c] IN
      /\ d.hung = Cardinality({ k \in 1..Len(d.delivered) :
                                  d.listeners[d.delivered[k].listener].kind = "hanging" })
      /\ \A k \in 1..Len(d.delivered) :
           d.listeners[d.delivered[k].listener].kind = "hanging" =>
             /\ \A j \in (d.delivered[k].listener + 1)..RegisteredBefore(d, d.delivered[k].msg) :
                  \E l \in (k + 1)..Len(d.delivered) :
                    d.delivered[l] = [listener |-> j, msg |-> d.delivered[k].msg]
             /\ \A n \in (d.delivered[k].msg + 1)..Len(d.inbound) :
                  InputConforms(d.inbound[n]) =>
                    \A j \in 1..RegisteredBefore(d, n) :
                      \E l \in (k + 1)..Len(d.delivered) :
                        d.delivered[l] = [listener |-> j, msg |-> n]

\* a listener that never completes registered before a replying one, and two
\* valid messages: four callbacks were started and two replies sent
C36_Witness ==
  \E c \in CallIds :
    /\ Len(duplex[c].listeners) = 2
    /\ duplex[c].listeners[1].kind = "hanging"
    /\ duplex[c].listeners[2].kind = "reply"
    /\ duplex[c].delivered = << [listener |-> 1, msg |-> 1], [listener |-> 2, msg |-> 1],
                                [listener |-> 1, msg |-> 2], [listener |-> 2, msg |-> 2] >>
    /\ duplex[c].hung = 2
    /\ duplex[c].sent = << ReplyMessage, ReplyMessage >>

(***************************************************************************)
(* C37: after disconnect(), and until connect() is called again, no        *)
(* reconnect timer is pending, no socket is created and the attempt        *)
(* counter is 0; and a reconnect timer is set only by the close of a       *)
(* socket that is not a manual disconnect, with reconnect enabled and the  *)
(* attempt counter below maxReconnectAttempts.                             *)
(***************************************************************************)
C37_Quiet ==
  hook.disconnected =>
    /\ ~hook.reconnectTimer
    /\ hook.reconnectAttemptsRef = 0

C37_Step ==
  /\ hook.disconnected /\ hook'.disconnected =>
       Len(hook'.sockets) = Len(hook.sockets)
  /\ ~hook.reconnectTimer /\ hook'.reconnectTimer =>
       /\ hook'.lastCall = "onclose"
       /\ hook.shouldReconnectRef
       /\ ~hook.isManualDisconnectRef
       /\ hook.reconnectAttemptsRef < hook.maxReconnectAttempts
       /\ hook'.reconnectAttemptsRef = hook.reconnectAttemptsRef + 1

C37_NoReconnectAfterDisconnect == []C37_Quiet /\ [][C37_Step]_vars

\* with reconnect enabled, disconnect() was called after two sockets had
\* been created; both have closed since and the hook was unmounted
C37_Witness ==
  /\ hook.disconnected
  /\ hook.lastCall = "unmount"
  /\ Len(hook.sockets) = 2
  /\ \A i \in 1..Len(hook.sockets) : hook.sockets[i].readyState = "CLOSED"
  /\ hook.reconnect /\ hook.maxReconnectAttempts = MaxReconnectAttempts

(***************************************************************************)
(* C38: at most one socket of the hook is open or connecting; connect()    *)
(* changes nothing while the current socket is connecting or open; and     *)
(* when a socket is created, every earlier one is neither open nor         *)
(* connecting and has no handler attached.                                 *)
(***************************************************************************)
LiveSockets(h) ==
  { i \in 1..Len(h.sockets) : h.sockets[i].readyState \in {"CONNECTING", "OPEN"} }

C38_OneSocket == Cardinality(LiveSockets(hook)) <= 1

C38_ConnectNoOp ==
  Live(hook) /\ hook.lastCall # "connect" /\ hook'.lastCall = "connect" =>
    hook' = [hook EXCEPT !.lastCall = "connect"]

C38_Replaced ==
  Len(hook'.sockets) > Len(hook.sockets) =>
    \A i \in 1..Len(hook.sockets) :
      /\ hook'.sockets[i].readyState \notin {"CONNECTING", "OPEN"}
      /\ ~hook'.sockets[i].attached

====
